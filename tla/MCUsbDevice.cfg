SPECIFICATION Spec
CONSTANTS
  BUFFER_COUNT = 4
  SECTOR_PER_MPP = 2
  MSC_BlockCount = 4
  USB_MAX_PACKET0 = 2
  DescriptorLength <- MCDescriptorLength
  Campaigns <- MCCampaigns
INVARIANTS WritesLand ReadsRight BuffersOwned ControlAnswers
PROPERTY CommandsEnd
CHECK_DEADLOCK FALSE
