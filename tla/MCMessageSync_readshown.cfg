CONSTANTS
  Self = Self
  a = a
  b = b
  Others = {a, b}
  InitContacts <- MCInitContacts
  PollSlots = {p1, p2}
  SendSlots = {s1}
  MaxMsgs = 2
  MaxFails = 1
  NoContact = NoContact
  Home = Home
  NoSend = NoSend

SPECIFICATION Spec

PROPERTY ReadOnlyWhenShown
