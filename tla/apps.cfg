SPECIFICATION CatalogSpec
CONSTANTS
  p1 = p1  t1 = t1  h1 = h1  h2 = h2
  Provider = {p1}  ToolName = {t1}  Contract <- AppContracts  Setter = {h1, h2}
  NoContract = NoContract  Nobody = Nobody
INVARIANT AppsFollowSetting
SYMMETRY SetterSymmetry
CHECK_DEADLOCK FALSE
