CONSTANTS
    p = p
    q = q
    x = x
    r1 = r1
    r2 = r2
    None = None
    Maintainer = Maintainer
    Publisher = {p, q}
    Archive = {x}
    Lines <- MCLines
    ArchiveOf <- MCArchiveOf
    KeyOf <- MCKeyOf
    Upstream = {}
    Offers <- MCOffers
    Filers = {p, q}
    Transfer <- MCTransfer
    Size <- MCSize
    Part = 2
    Quota = 6
    Edition = {r1, r2}
    InOrder <- MCInOrder
    MaxCuts = 1
    MaxExpiries = 1
    MaxRemovals = 1
    MaxRestorals = 1
    MaxWithdrawals = 1
    MaxRemakes = 1
    MaxMoves = 1
    MaxEvents = 3
SPECIFICATION Spec
INVARIANTS OneVersion KeyKept WithdrawalsListed StagedAsPlanned
PROPERTIES IsChannel
CHECK_DEADLOCK FALSE
