SPECIFICATION Spec
CONSTANTS
    hand = hand
    Runs = {r1}
    Material = {m1, m2, hand}
    ByHand <- Edits
    Absent = Absent
    Garbled = Garbled
    LastSecond = 3
INVARIANTS
    TypeOK
    ArchivedAsRead
