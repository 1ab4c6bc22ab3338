SPECIFICATION BundleSpec
CONSTANTS
    BundleTexts = {"a", "b"}
    MaxSyncBytes = 3
    MaxBundleFiles = 4
    MaxBundlePushes = 2
    MaxLostObjects = 1
CHECK_DEADLOCK FALSE
PROPERTIES
    ReuploadRepairs
