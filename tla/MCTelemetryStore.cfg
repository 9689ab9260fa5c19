CONSTANTS
    Tabs = {t1}
    Devices = {d1, d2}
    Origins = {o1, o2}
    MessageNames = {m1, m2}
    Sensors = {s}
    Assets = {a1}
    NoAsset = NoAsset
    MaxHistory = 2
    MaxRecords = 3
    MaxReloads = 1
SPECIFICATION MCSpec
INVARIANTS StoreTypeOK NothingForgotten
PROPERTIES ShowsEverything CatalogKept
