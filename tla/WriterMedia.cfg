SPECIFICATION Spec
CONSTANTS
    Id <- TwoIds
    Text <- AllText
    Ref <- AllRef
    None = None
    Sender <- OneSender
    Emoji <- OneEmoji
    a = a  b = b  c1 = c1  c2 = c2  t0 = t0  t1 = t1  t2 = t2
    r1 = r1  r2 = r2  s1 = s1  heart = heart
    Chat <- TwoChats
    Messages <- MediaMessages
    Mutations <- MediaMutations
    Reactions <- MediaReactions
    Votes <- Nothing
    PnOf <- LidAndPhone
    TargetLimit = 2
    MutationLimit = 2
    MaxBatch = 2
INVARIANTS ConsumedStaysConsumed IndexMatchesStore DeletedChatsAreEmpty
PROPERTIES LockSavedBeforeFileDeleted RevocationNotLost MergedStaysMerged
