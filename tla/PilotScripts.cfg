CONSTANTS
  Null = Null
  fdvc = fdvc
  fdvc26 = fdvc26
  pa = pa
  pb = pb
  ga = ga
  twin = twin
  twinGroup = twinGroup
  may = may
  noSchool = noSchool
  noGroup = noGroup
  tba = tba
  Files <- MCFiles
  MailFiles <- MCMailFiles
  Expected <- MCExpected
  Organizer = fdvc
  Event = fdvc26
  Unknown = noSchool
  NotApplicable = noGroup
  ToConfirm = tba
  Provisional = may
  ToConfirmNum = 3
  CustomSlug <- MCCustomSlug
  PersonOf <- MCPersonOf
  RelationsOf <- MCRelationsOf
  AlsoNamed <- MCAlsoNamed
  SubjectOf <- MCSubjectOf
  Names = {fdvc, fdvc26, pa, pb, ga, twin, twinGroup, may}
  Runs = {r1, r2}
  MaxStarts = 3
  MaxEdits = 1
SPECIFICATION PilotSpec
CHECK_DEADLOCK FALSE
SYMMETRY Symmetry
INVARIANT PilotTypeOK
INVARIANT ContactsComplete
PROPERTY ImportIsWhole
