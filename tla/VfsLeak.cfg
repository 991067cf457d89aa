SPECIFICATION Spec
CONSTANTS
  MAX_OVERLAY_FILES = 2
  MAX_PATH_LEN = 3
  MAX_CONTENT_LEN = 2
  Chars <- MCChars
  Paths <- MCPaths
  Texts <- MCTexts
  Initramfs <- MCInitramfs
INVARIANT LeakedTextStays
