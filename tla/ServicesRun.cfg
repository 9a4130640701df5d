SPECIFICATION ServicesSpec
CONSTANTS
    Invitees = {"u1"}
    WorkspaceOwner = "o"
    WorkspaceCalls = {1, 2}
    WorkspaceNames = {1, 2}
    Joiners = {"u1"}
    Pinnable = {"m1", "m2"}
    PinLimit = 1
    ChannelCalls = {1, 2, 3}
    Readers = {"u1", "u2"}
    MessageCalls = {1, 2, 3}
    HistoryKept = 1
    Participants = {"u1", "u2", "u3"}
    ParticipantLimit = 3
    DmCalls = {1, 2, 3}
    AuthRequests = {1, 2, 3}
    AuthOps = {"login", "view", "logout", "update", "forgot", "otp", "change", "resend", "email", "refresh"}
    SocketIds = {"s1", "s2"}
    SocketUsers = {"u1", "u2"}
    AuthCalls = {1, 2, 3}
    NoUser = NoUser
    Lookers = {1, 2}
    Families <- MCFamilies
    Hour = 2
    Day = 3
    Week = 3
    Month = 3
    Minutes = 1
    MaxLookupTime = 3
    MaxLookupFaults = 1
    NoData = NoData
    Turns = {1, 2, 3, 4, 5}
    Conversations = {1, 2}
    HistoryLimit = 4
    Verdicts = {"approve", "review", "reject"}
    NoVerdict = NoVerdict
    Payers = {"w1", "w2"}
    MaxResends = 1
    MaxEventFaults = 1
CHECK_DEADLOCK FALSE
INVARIANTS
    WorkspaceSound
    ChannelSound
    MessageSound
    OneConversation
    SessionSound
    SocketsLive
    LookupFresh
    AgentsSound
    EventsTell
