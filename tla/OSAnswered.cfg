SPECIFICATION FairSpec
CONSTANTS
    direct = direct another = another room = room
    buddy = buddy me = me d1 = d1 this = this
    first = first again = again own = own
    None = None
    Sends = {direct, another, room}
    Batches <- MCBatches
    Parents = {buddy, me}
    Legs = {first, again, own}
    Own = own
    ParentOf <- MCParentOf
    Devices = {d1, this}
    Self = this
    DevicesOf <- MCDevicesOf
    Recipients <- MCRecipients
    FirstRows = {this}
    FirstSessions = {}
    MaxPushes = 1
    MaxLate = 2
INVARIANTS TypeOK NothingPending SomebodyCarriesOn CrashHasCause
PROPERTIES EverySendAnswered ImplementsEncryption
CHECK_DEADLOCK FALSE
