SPECIFICATION SpecLoader
CONSTANTS
  ImageClasses <- MCImageClasses
  RuntimeClasses = {"Made"}
  Categories <- MCCategories
  NoClass = "nil"
  NSObject = "NSObject"
  Roots = {"NSObject"}
  OSObject = {"Mid"}
  Superclass <- MCSuperclass
  Target <- MCTarget
  Defines <- MCDefines
  HasLoad <- MCHasLoad
  Compiled <- MCCompiled
  Images = {"I1", "I2", "I3"}
  ImageOrder <- MCImageOrder
  ClassList <- MCClassList
  CategoryList <- MCCategoryList
  Bundles = {"I3"}
  Futures = {"Lazy"}
  DebugIvars = {FALSE, TRUE}
  RootSizes = {8, 12}
  Ivars <- MCIvars
  MaxChanges = 1
  MaxIvars = 2
INVARIANTS
  LoadOrder
  NothingForgotten
  MethodOrder
  InheritedFlags
  LayoutSound
CHECK_DEADLOCK FALSE
