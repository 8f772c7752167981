-------------------------------- MODULE Watchdog --------------------------------
(***************************************************************************)
(* services/watchdog: a table that constructors append to from any thread, *)
(* one atomic access at a time, and a scan that takes one snack from every *)
(* object in it.  As its README asks, nobody scans while an object is      *)
(* being constructed; feeding goes on during a scan.                       *)
(***************************************************************************)
EXTENDS Integers, FiniteSets

CONSTANTS
  Dogs,     \* the objects
  MaxDogs,    \* MAX_WATCHDOG_NUM
  Snacks,   \* what feed() may give
  MaxScans  \* bound: calls of EatAll()

None == "none"

ASSUME WatchdogAssumption ==
  MaxDogs \in Nat /\ Snacks \subseteq Int /\ MaxScans \in Nat /\ None \notin Dogs

VARIABLES
  count,   \* watchdog_count
  table,   \* watchdogs
  life,    \* Dog -> where its constructor is
  id,      \* Dog -> the count its constructor read
  snacks,  \* Dog -> snacks_
  scan,    \* the index EatAll() is at, -1 outside of it
  scans,
  before,  \* ghost: Dog -> snacks_ when the scan began
  fed      \* ghost: the dogs fed since

dogVars == <<count, table, life, id, snacks, scan, scans, before, fed>>

DogsInit ==
  /\ count = 0 /\ table = [i \in 0 .. (MaxDogs - 1) |-> None]
  /\ life = [d \in Dogs |-> "unborn"] /\ id = [d \in Dogs |-> 0]
  /\ snacks = [d \in Dogs |-> 0] /\ before = [d \in Dogs |-> 0] /\ fed = {}
  /\ scan = -1 /\ scans = 0

Construct(d) ==
  /\ life[d] = "unborn" /\ scan = -1
  /\ life' = [life EXCEPT ![d] = "counted"]
  /\ id' = [id EXCEPT ![d] = count] /\ count' = count + 1
  /\ UNCHANGED <<table, snacks, scan, scans, before, fed>>

Store(d) ==
  /\ life[d] = "counted" /\ id[d] < MaxDogs
  /\ table' = [table EXCEPT ![id[d]] = d]
  /\ life' = [life EXCEPT ![d] = "registered"]
  /\ UNCHANGED <<count, id, snacks, scan, scans, before, fed>>

(* The fault NotGivenBack: the count keeps what found no room.             *)
NotGivenBack(d) ==
  /\ life[d] = "counted" /\ id[d] >= MaxDogs
  /\ life' = [life EXCEPT ![d] = "stray"]
  /\ UNCHANGED <<count, table, id, snacks, scan, scans, before, fed>>

(* The table is full: the object lives without being scanned. *)
GiveBack(d) ==
  /\ life[d] = "counted" /\ id[d] >= MaxDogs
  /\ count' = count - 1
  /\ life' = [life EXCEPT ![d] = "stray"]
  /\ UNCHANGED <<table, id, snacks, scan, scans, before, fed>>

Feed(d, n) ==
  /\ life[d] \in {"registered", "stray"}
  /\ snacks' = [snacks EXCEPT ![d] = n] /\ fed' = fed \cup {d}
  /\ UNCHANGED <<count, table, life, id, scan, scans, before>>

(* The host scans with no constructor under way. *)
EatAll ==
  /\ scan = -1 /\ scans < MaxScans
  /\ \A d \in Dogs : life[d] # "counted"
  /\ scan' = 0 /\ scans' = scans + 1
  /\ before' = snacks /\ fed' = {}
  /\ UNCHANGED <<count, table, life, id, snacks>>

Eat ==
  /\ scan >= 0 /\ scan < count
  /\ snacks' = [snacks EXCEPT ![table[scan]] = @ - 1]
  /\ scan' = scan + 1
  /\ UNCHANGED <<count, table, life, id, scans, before, fed>>

Scanned ==
  /\ scan >= 0 /\ scan >= count
  /\ scan' = -1
  /\ UNCHANGED <<count, table, life, id, snacks, scans, before, fed>>

DogsNext ==
  \/ \E d \in Dogs : Construct(d) \/ Store(d) \/ GiveBack(d) \/ \E n \in Snacks : Feed(d, n)
  \/ EatAll \/ Eat \/ Scanned

DogsSpec == DogsInit /\ [][DogsNext]_dogVars

(* Constructors that overtake each other leave no gap below the count, and *)
(* none is turned away while there is room; so when a scan ends every      *)
(* registered object has lost one snack, no other has, and no entry was    *)
(* empty.                                                                  *)
EveryDogEatsOnce ==
  /\ \A d \in Dogs : life[d] = "stray" => count >= MaxDogs
  /\ scan >= 0 /\ scan < count => scan < MaxDogs /\ table[scan] # None
  /\ scan >= 0 /\ scan >= count =>
       \A d \in Dogs : \/ d \in fed
                       \/ snacks[d] = before[d] - (IF life[d] = "registered" THEN 1 ELSE 0)
=============================================================================
