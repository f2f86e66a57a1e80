\* The write table is 3 long, with both watermarks where the code's shifts put them: 2.
SPECIFICATION FairSpec
CONSTANTS
    Addr = {a1, a2, a3, a4}
    NoAddr = NoAddr
    Bank = {b1, b2}
    Row = {r1, r2}
    a1 = a1
    a2 = a2
    a3 = a3
    a4 = a4
    b1 = b1
    b2 = b2
    r1 = r1
    r2 = r2
    NoRow = NoRow
    BankOf <- TwoBanks
    RowOf <- TwoRows
    Size <- SmallTables
    HighWM = 2
    LowWM = 2
INVARIANTS TypeOK BanksMatch CountsExact IndicesFresh ReadsTracked
PROPERTIES RoomReturns ReadsAnswered
