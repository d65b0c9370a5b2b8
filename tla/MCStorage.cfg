CONSTANT None = None
SPECIFICATION Spec
INVARIANTS
    NamesSound RunsSound SpaceSound RefsSound ContentSound DirectoriesSound
    FormatsSound DeviceSound ServerSound
PROPERTIES NothingGained
CHECK_DEADLOCK FALSE
