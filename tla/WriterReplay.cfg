SPECIFICATION Spec
CONSTANTS
    Id <- TwoIds
    Text <- AllText
    Ref <- AllRef
    None = None
    Sender <- OneSender
    Emoji <- OneEmoji
    a = a  b = b  c1 = c1  c2 = c2  t0 = t0  t1 = t1  t2 = t2
    r1 = r1  r2 = r2  s1 = s1  heart = heart
    Chat <- OneChat
    Messages <- ReplayMessages
    Mutations <- ReplayMutations
    Reactions <- Nothing
    Votes <- ReplayVotes
    PnOf <- NoLid
    TargetLimit = 1
    MutationLimit = 2
    MaxBatch = 2
INVARIANTS TypeOK EditedTextStands PendingAgrees PendingOnlyForUnknown
PROPERTIES ReplayNeverUndoes OldestGivesWay
