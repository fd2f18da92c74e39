----------------------------- MODULE SeatMarket -----------------------------
(***************************************************************************)
(* operator_open_seats (src/src/clusters.ts): the vacancies of the open-   *)
(* seat market, which the chain does not list and the code folds from four *)
(* separate reads of events, while the chain goes on.                      *)
(*                                                                         *)
(* External: the chain.  A block holds one event of the market; the market *)
(* itself (who is open, how many are admitted) is kept by the chain and    *)
(* remembered here per height, to compare the answers with.  What its      *)
(* functions are is said in clusters.ts, what they ask for is not: a seat  *)
(* that is not open may be advertised again here, an operator may apply    *)
(* again, and a rescission leaves the seat in any status.                  *)
(***************************************************************************)
EXTENDS Naturals, Sequences, FiniteSets, FiniteSetsExt

CONSTANTS
    Seats,              \* (clusterId, seatId) pairs
    SeatCount,          \* places advertised per seat
    Window,             \* SEAT_DISCOVERY_WINDOW_BLOCKS
    Limit,              \* args.limit
    MaxHeight,          \* bounds of the model: the chain's last block,
    MaxBroken           \*   and how many events cannot be decoded

(* The events the code reads; a withdrawal leaves none of them.            *)
EventKinds == {"advertised", "applied", "filled", "closed"}
SeatStatuses == {"none", "open", "filled", "closed"}

VARIABLES
    log,        \* the chain's events, one per block from the activation on
    market,     \* per height, per seat: [status, filled, applied], applied
                \* being the applications that stand
    scan,       \* "idle", "reading", "listed" or "unavailable"
    head,       \* the height the scan was told
    batch,      \* SeatEventBatch: what each read returned so far
    pending,    \* the event reads under way
    listing     \* openSeats of the answer

chainVars == <<log, market>>
scanVars == <<scan, head, batch, pending, listing>>
vars == <<chainVars, scanVars>>

Height == Len(log)
Vacancy == [status |-> "none", filled |-> 0, applied |-> 0]
NoEvents == [k \in EventKinds |-> {}]

Init ==
    /\ log = <<>>
    /\ market = <<>>
    /\ scan = "idle"
    /\ head = 0
    /\ batch = NoEvents
    /\ pending = {}
    /\ listing = {}

-----------------------------------------------------------------------------
(* The chain.                                                              *)
At(height) == IF height = 0 THEN [s \in Seats |-> Vacancy] ELSE market[height]
Now == At(Height)

(* An event may lack a field the adapters need; a SeatClosed has a status  *)
(* byte.                                                                   *)
Emit(kind, s, byte, seat) ==
    /\ Height < MaxHeight
    /\ \E whole \in BOOLEAN :
          /\ whole \/ Cardinality({h \in 1..Height : ~log[h].whole}) < MaxBroken
          /\ log' = Append(log, [kind |-> kind, seat |-> s, whole |-> whole,
                                 filled |-> seat.filled, status |-> byte])
    /\ market' = Append(market, [Now EXCEPT ![s] = seat])
    /\ UNCHANGED scanVars

Advertise(s) ==
    /\ Now[s].status # "open"
    /\ Emit("advertised", s, "none", [Vacancy EXCEPT !.status = "open"])

(* An application may be a repeated one, of an operator whose own stands.  *)
Apply(s) ==
    /\ Now[s].status = "open"
    /\ \E more \in IF Now[s].applied > 0 THEN {0, 1} ELSE {1} :
          Emit("applied", s, "none", [Now[s] EXCEPT !.applied = @ + more])

Withdraw(s) ==
    /\ Now[s].status = "open" /\ Now[s].applied > 0
    /\ Emit("withdrawn", s, "none", [Now[s] EXCEPT !.applied = @ - 1])

Admit(s) ==
    /\ Now[s].status = "open" /\ Now[s].applied > 0
    /\ Emit("filled", s, "none",
            [status |-> IF Now[s].filled + 1 = SeatCount THEN "filled" ELSE "open",
             filled |-> Now[s].filled + 1, applied |-> Now[s].applied - 1])

Rescind(s) ==
    /\ Now[s].status = "open"
    /\ \E byte \in SeatStatuses :
          Emit("closed", s, byte,
               [Now[s] EXCEPT !.status = IF byte = "none" THEN "closed" ELSE byte])

Chain == \E s \in Seats : Advertise(s) \/ Apply(s) \/ Withdraw(s) \/ Admit(s) \/ Rescind(s)

-----------------------------------------------------------------------------
(* foldSeatEvents: adverts seed the listing, then every SeatFilled, then   *)
(* every SeatClosed, whatever their order on the chain was.                *)
FilledCount(b, s) == Max({0} \cup {e.filled : e \in {x \in b["filled"] : x.seat = s}})

(* Mutant of SeatStatus: a closed seat is not taken off the list.          *)
SeatStatusByCount(b, s) ==
    IF FilledCount(b, s) >= SeatCount THEN "filled" ELSE "open"

(* The last SeatClosed that was decoded, if any, decides by its byte.      *)
LastClosed(b, s) ==
    {e \in b["closed"] :
        e.seat = s /\ \A x \in b["closed"] : x.seat = s => x.height <= e.height}

SeatStatus(b, s) ==
    LET byte == (CHOOSE e \in LastClosed(b, s) : TRUE).status
    IN  IF LastClosed(b, s) # {} THEN (IF byte = "none" THEN "closed" ELSE byte)
        ELSE IF FilledCount(b, s) >= SeatCount THEN "filled" ELSE "open"

FoldSeatEvents(b) ==
    {[seat |-> s, status |-> SeatStatus(b, s), filled |-> FilledCount(b, s)] :
        s \in {e.seat : e \in b["advertised"]}}

CountApplications(b, s) == Cardinality({e \in b["applied"] : e.seat = s})

(* The vacancies, in the order of the seats and cut at the limit.          *)
OpenSeats(b) ==
    {[seat |-> f.seat, filled |-> f.filled, applied |-> CountApplications(b, f.seat)] :
        f \in {x \in FoldSeatEvents(b) : x.status = "open" /\ x.filled < SeatCount}}

(* liveOperatorOpenSeats: the head, ...                                    *)
ScanStarts ==
    /\ scan = "idle"
    /\ \/ scan' = "reading" /\ head' = Height /\ pending' = EventKinds
       \/ scan' = "unavailable" /\ UNCHANGED <<head, pending>>
    /\ batch' = NoEvents
    /\ listing' = {}
    /\ UNCHANGED chainVars

FromBlock == IF head > Window THEN head - Window ELSE 1

(* ... readSeatEventBatch: the four reads of one range, in any order, each *)
(* without the events its adapter cannot decode; one that fails fails the  *)
(* scan, ...                                                               *)
Event(h) == [seat |-> log[h].seat, filled |-> log[h].filled, status |-> log[h].status,
             height |-> h]
Decoded(kind) == {Event(h) : h \in {i \in FromBlock..head : log[i].kind = kind /\ log[i].whole}}

EventsRead(kind) ==
    /\ scan = "reading"
    /\ kind \in pending
    /\ pending' = pending \ {kind}
    /\ batch' = [batch EXCEPT ![kind] = Decoded(kind)]
    /\ UNCHANGED <<chainVars, scan, head, listing>>

ReadFails(kind) ==
    /\ scan = "reading"
    /\ kind \in pending
    /\ scan' = "unavailable"
    /\ pending' = {}
    /\ batch' = NoEvents
    /\ UNCHANGED <<chainVars, head, listing>>

(* ... and the answer.                                                     *)
SeatsListed ==
    /\ scan = "reading"
    /\ pending = {}
    /\ \E shown \in SUBSET OpenSeats(batch) :
          /\ Cardinality(shown) = Min({Limit, Cardinality(OpenSeats(batch))})
          /\ listing' = shown
    /\ scan' = "listed"
    /\ UNCHANGED <<chainVars, head, batch, pending>>

Answered ==
    /\ scan \in {"listed", "unavailable"}
    /\ scan' = "idle"
    /\ head' = 0
    /\ batch' = NoEvents
    /\ listing' = {}
    /\ UNCHANGED <<chainVars, pending>>

Next ==
    \/ Chain
    \/ ScanStarts
    \/ \E kind \in EventKinds : EventsRead(kind) \/ ReadFails(kind)
    \/ SeatsListed
    \/ Answered

Spec == Init /\ [][Next]_vars

-----------------------------------------------------------------------------
SeatRecord == [status: SeatStatuses, filled: 0..SeatCount, applied: Nat]
LogEntry == [kind: EventKinds \cup {"withdrawn"}, seat: Seats, whole: BOOLEAN,
             filled: 0..SeatCount, status: SeatStatuses]

TypeOK ==
    /\ \A h \in 1..Height : log[h] \in LogEntry
    /\ Len(market) = Height
    /\ scan \in {"idle", "reading", "listed", "unavailable"}
    /\ head \in 0..Height
    /\ pending \subseteq EventKinds
    /\ \A l \in listing : l.seat \in Seats /\ l.filled \in 0..SeatCount

(* In a range of blocks: every event of the seat can be decoded; it is      *)
(* advertised in the window; every event has left it open, so that it was  *)
(* advertised only once.                                                   *)
Whole(s, first, last) == \A h \in first..last : log[h].seat = s => log[h].whole
AdvertInRange(s) == \E h \in FromBlock..head :
                       log[h].seat = s /\ log[h].kind = "advertised"
StaysOpen(s, first, last) ==
    \A h \in first..last : log[h].seat = s => market[h][s].status = "open"

ListedSeatsWereOpen ==
    scan = "listed" =>
        \A l \in listing :
            Whole(l.seat, FromBlock, head) =>
                LET seat == At(head)[l.seat]
                IN  /\ seat.status = "open"
                    /\ StaysOpen(l.seat, FromBlock, head) =>
                          l.filled = seat.filled /\ l.applied >= seat.applied + seat.filled

VacanciesAreListed ==
    scan = "listed" =>
        \A s \in Seats :
            /\ At(head)[s].status = "open"
            /\ AdvertInRange(s)
            /\ Whole(s, FromBlock, head) /\ StaysOpen(s, FromBlock, head)
            => s \in {l.seat : l \in listing} \/ Cardinality(listing) = Limit

(* Every seat that is listed was open at the block the scan was told,      *)
(* although the events are read one kind at a time while the chain moves   *)
(* on and are folded without their order, and although seats are closed,   *)
(* filled and advertised again.  A seat advertised once in the window and  *)
(* open since is listed unless the list is full, with the number of        *)
(* admitted operators, and with at least as many applications as stand or  *)
(* were admitted: repeated and withdrawn ones count as well.  A seat one   *)
(* of whose events cannot be decoded is excepted.                          *)
SeatListIsExact == ListedSeatsWereOpen /\ VacanciesAreListed

-----------------------------------------------------------------------------
(* The inductive invariant of SeatListIsExact.                             *)
ChainTyped ==
    /\ log \in Seq(LogEntry) /\ market \in Seq([Seats -> SeatRecord])
    /\ Len(market) = Len(log)
    /\ \A h \in 0..Height, s \in Seats :
          At(h)[s].status = "open" => At(h)[s].filled < SeatCount

(* What the events from one height to another say of a seat, folded by     *)
(* kind, and what the market at the later height is.                       *)
Of(kind, s, f, h) == {i \in f..h : log[i].seat = s /\ log[i].kind = kind}

SaysOpen(s, f, h) ==
    /\ \A i \in Of("closed", s, f, h) :
          (\A j \in Of("closed", s, f, h) : j <= i) => log[i].status = "open"
    /\ \A i \in Of("filled", s, f, h) : log[i].filled < SeatCount
OpenIfSaid(s, f, h) ==
    Of("advertised", s, f, h) # {} /\ SaysOpen(s, f, h) => At(h)[s].status = "open"

OpenIfStays(s, f, h) ==
    StaysOpen(s, f, h) /\ (\E i \in f..h : log[i].seat = s) => At(h)[s].status = "open"
CountsFollow(s, f, h) ==
    Of("advertised", s, f, h) # {} /\ StaysOpen(s, f, h) =>
        /\ \A i \in Of("closed", s, f, h) : log[i].status = "open"
        /\ \A i \in Of("filled", s, f, h) : log[i].filled <= At(h)[s].filled
        /\ At(h)[s].filled = 0
            \/ \E i \in Of("filled", s, f, h) : log[i].filled = At(h)[s].filled
        /\ Cardinality(Of("applied", s, f, h)) >= At(h)[s].applied + At(h)[s].filled

(* What a scan has read is what the chain holds of its range.              *)
ScanFollows ==
    /\ scan \in {"idle", "reading", "listed", "unavailable"}
    /\ head \in 0..Height /\ pending \subseteq EventKinds
    /\ scan \in {"reading", "listed"} =>
          /\ batch = [kind \in EventKinds |-> batch[kind]]
          /\ \A kind \in EventKinds \ pending : batch[kind] = Decoded(kind)
    /\ scan # "listed" => listing = {}
    /\ scan = "listed" =>
          /\ pending = {} /\ listing \subseteq OpenSeats(batch)
          /\ Cardinality(listing) = Min({Limit, Cardinality(OpenSeats(batch))})

SeatsIInv ==
    /\ ChainTyped /\ ScanFollows
    /\ \A h \in 0..Height : \A f \in 1..(h + 1), s \in Seats :
          OpenIfSaid(s, f, h) /\ OpenIfStays(s, f, h) /\ CountsFollow(s, f, h)

=============================================================================
