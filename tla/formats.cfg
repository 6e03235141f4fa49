\* Every format and combination of flags, odd and large sizes; the GPU reads
\* some of the compressed formats.
SPECIFICATION Spec
CONSTANTS
  Formats <- AllFormats
  Widths = {1, 96, 2000}
  Heights = {1, 98, 199, 1088}
  MaxDim = 8192
  AskFlags = {"WRITE", "UBWC", "HW_RENDERING", "PROTECTED", "CAMERA_READ", "CAMERA_WRITE", "HW_COMPOSER", "VIDEO_ENCODER", "10BIT_TP", "SECURE_HEAP", "SECURE_DISPLAY_HEAP"}
  MaxFlags = 3
  ImportFlags = {"HW_RENDERING"}
  HasGpu = TRUE
  GpuUbwc = {"XBGR8888", "ABGR8888", "BGR565"}
  GpuPixels = 32
INVARIANTS TypeOK ImportersAgree PlanesFit LayoutsAgree RgbDataFits ProtectedHidden FlagsMatchHeaps
