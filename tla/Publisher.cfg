SPECIFICATION Spec
CONSTANTS
  Addresses = {a1, a2}
  Pids = {p1, p2, p3}
  None = None
INVARIANTS
  IInv
  OnePublisherPerAddress
  SleepsAsPolled
PROPERTIES
  AddressIsPublished
  NameIsLeftToAvahi
