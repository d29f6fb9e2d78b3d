\* A megabyte of two pages and five of them, the kernel at the second; tables of
\* up to four regions, of which three are kept and two go into a zone.
SPECIFICATION LayoutSpec
CONSTANTS
  SectionPages = 2
  PhysSections = 5
  UserSections = 5
  Entries = 11
  KernelPhys = 2
  KernelPages = 1
  ImageSections = 1
  BootIo = {4}
  VectorOffset = 1
  BoardRegions = 4
  MEM_MAX_REGION = 3
  ZONE_MAX_REGION = 2
CHECK_DEADLOCK FALSE
INVARIANTS
  PageNumbersAreMemory
  KernelStaysMapped
  
  LookupsAgree
  VectorsReachable
  CutFits
