CONSTANT Entries = {"a"}
CHECK_DEADLOCK FALSE
SPECIFICATION FolderSpec
INVARIANT OnlyWithSubfolders
