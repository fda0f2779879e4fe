------------------------------- MODULE MCLoader ------------------------------
(* Loader with three images: NSObject and a lazy class; two classes with    *)
(* +load listed subclass first; a bundle with a third, with a class whose   *)
(* superclass is missing, and with categories on classes of the others.     *)
EXTENDS Loader

Side(inst, meta) == [inst |-> inst, meta |-> meta]
Var(offset, size, align) == [offset |-> offset, size |-> size, align |-> align]
Layout(start, size, ivars) == [start |-> start, size |-> size, ivars |-> ivars]

MCImageClasses == {"NSObject", "Lazy", "Mid", "Leaf", "Extra", "Orphan"}
MCCategories   == {"LazyA", "LazyB", "MidA", "MidB", "RootA", "OrphanA"}
MCSuperclass   == [c \in MCImageClasses |->
    CASE c \in {"Lazy", "Mid"} -> "NSObject" [] c = "Leaf" -> "Mid" [] c = "Extra" -> "Leaf"
      [] OTHER -> NoClass]
MCTarget == [k \in MCCategories |->
    CASE k \in {"LazyA", "LazyB"} -> "Lazy" [] k \in {"MidA", "MidB"} -> "Mid"
      [] k = "RootA" -> "NSObject" [] OTHER -> "Orphan"]
MCDefines == [x \in MCImageClasses \cup MCCategories |->
    CASE x = "NSObject" -> Side({"retain"}, {"alloc"})
      [] x = "LazyA"    -> Side({"retain"}, {"other"})
      [] x = "MidB"     -> Side({"retain"}, {"load"})
      [] x = "RootA"    -> Side({"other"}, {"alloc"})
      [] x = "MidA"     -> Side({"other"}, {"load"})
      [] x = "LazyB"    -> Side({"other"}, {})
      [] OTHER          -> Side({"other"}, {"load"})]
MCHasLoad == {"Mid", "Leaf", "Orphan", "MidA", "MidB", "OrphanA"}
MCCompiled == [c \in MCImageClasses |->
    CASE c = "NSObject" -> Layout(0, 8, <<Var(0, 8, 8)>>)
      [] c = "Lazy"  -> Layout(8, 8, <<>>)
      [] c = "Mid"   -> Layout(8, 21, <<Var(8, 8, 8), Var(16, 4, 4), Var(20, 1, 1)>>)
      [] c = "Leaf"  -> Layout(24, 28, <<Var(24, 4, 4)>>)
      [] OTHER       -> Layout(32, 40, <<Var(32, 8, 8)>>)]
MCImageOrder == <<"I1", "I2", "I3">>
MCClassList == [i \in {"I1", "I2", "I3"} |->
    CASE i = "I1" -> <<"NSObject", "Lazy">> [] i = "I2" -> <<"Leaf", "Mid">>
      [] OTHER -> <<"Extra", "Orphan">>]
MCCategoryList == [i \in {"I1", "I2", "I3"} |->
    CASE i = "I1" -> <<>> [] i = "I2" -> <<"LazyA", "MidA">>
      [] OTHER -> <<"MidB", "RootA", "LazyB", "OrphanA">>]
MCIvars == {<<4, 8>>}
==============================================================================
