-------------------------------- MODULE Laps --------------------------------
(***************************************************************************)
(* race_state() of getline/laps.c: the cars of a race in a linked list     *)
(* that a static pointer keeps from call to call.  A car that is named for *)
(* the first time joins with no lap, each time after that it has done one  *)
(* more, and a call with no car ends the race.                             *)
(*                                                                         *)
(* The nodes are kept with their pointers: the list is what can be reached *)
(* from cars.  The printed leaderboard is the list in its order.  A step   *)
(* is a turn of the loop of race_state, or a call.                         *)
(***************************************************************************)
EXTENDS Integers, Sequences, FiniteSets

CONSTANTS
  Ids,          \* the identifiers of the cars
  Addresses,    \* where malloc may put a node
  MaxArray,     \* bound on the length of the array of a call
  MaxEntries,   \* bound on the identifiers named in one race
  NoCar         \* the null pointer

ASSUME LapsAssumption ==
  /\ Ids \subseteq Int /\ IsFiniteSet(Addresses) /\ NoCar \notin Addresses
  /\ MaxArray \in Nat /\ MaxEntries \in Nat

VARIABLES
  cars,      \* the head of the list, an address or NoCar
  heap,      \* the nodes that were allocated and not freed, by address
  left,      \* the identifiers the loop of race_state has still to go through
  entries    \* history: the identifiers named since the race began, each
             \* with whether malloc has memory at that moment

raceVars == <<cars, heap, left, entries>>

RaceInit == cars = NoCar /\ heap = [a \in {} |-> NoCar] /\ left = <<>> /\ entries = <<>>
-----------------------------------------------------------------------------
(* current, from the head on: at[k] is where it is after k nodes.          *)
Walk ==
  LET at[k \in 0 .. Cardinality(Addresses)] ==
        IF k = 0 THEN cars
        ELSE IF at[k - 1] = NoCar THEN NoCar ELSE heap[at[k - 1]].next
  IN  at

(* The addresses of the nodes the walk comes to, in their order. *)
List ==
  [k \in 1 .. Cardinality({j \in DOMAIN Walk : Walk[j] # NoCar}) |-> Walk[k - 1]]

Car(k) == heap[List[k]]
-----------------------------------------------------------------------------
(* Mutated forms, for the sensitivity of the properties.                   *)

FoundAtHead(id) == cars # NoCar /\ heap[cars].id = id
JoinsInFrontAlways(id) == TRUE
-----------------------------------------------------------------------------
Arrays == UNION {[1 .. m -> Ids] : m \in 1 .. MaxArray}

(* race_state(id, size) with size > 0. *)
RaceState ==
  /\ left = <<>>
  /\ left' \in Arrays /\ Len(entries) + Len(left') <= MaxEntries
  /\ UNCHANGED <<cars, heap, entries>>

(* The search of race_state. *)
Found(id) == \E k \in DOMAIN List : Car(k).id = id

(* update_laps: the first node with the identifier. *)
UpdateLaps(id) ==
  \E k \in DOMAIN List :
    /\ Car(k).id = id /\ \A j \in 1 .. k - 1 : Car(j).id # id
    /\ heap' = [heap EXCEPT ![List[k]].laps = @ + 1]
    /\ UNCHANGED cars

(* `cars == NULL || cars->id > id` *)
JoinsInFront(id) == cars # NoCar => heap[cars].id > id

(* The node at k is prev, where the walk of add_car stops.  A walk that    *)
(* stops at the head leaves prev NULL, and add_car cannot go on.           *)
IsPrev(k, id) ==
  /\ \A j \in 1 .. k : Car(j).id < id
  /\ k < Len(List) => Car(k + 1).id >= id

With(h, new, car) == [a \in DOMAIN h \cup {new} |-> IF a = new THEN car ELSE h[a]]
NewCar(id, next) == [id |-> id, laps |-> 0, next |-> next]

(* add_car, when malloc has memory. *)
AddCar(id) ==
  \E new \in Addresses \ DOMAIN heap :
    \/ /\ JoinsInFront(id)
       /\ heap' = With(heap, new, NewCar(id, cars)) /\ cars' = new
    \/ /\ ~ JoinsInFront(id)
       /\ \E k \in DOMAIN List :
            /\ IsPrev(k, id)
            /\ heap' = With([heap EXCEPT ![List[k]].next = new], new, NewCar(id, Car(k).next))
       /\ UNCHANGED cars

(* One turn of the loop of race_state.  What add_car returns is not looked *)
(* at, so a car malloc has no memory for is passed over.                   *)
Turn ==
  /\ left # <<>> /\ left' = Tail(left)
  /\ \E memory \in BOOLEAN :
       /\ entries' = Append(entries, [id |-> Head(left), memory |-> memory])
       /\ \/ Found(Head(left)) /\ UpdateLaps(Head(left))
          \/ ~ Found(Head(left)) /\ memory /\ AddCar(Head(left))
          \/ ~ Found(Head(left)) /\ ~ memory /\ UNCHANGED <<cars, heap>>

(* race_state(id, 0): free_cars frees what it reaches from cars. *)
EndRace ==
  /\ left = <<>>
  /\ heap' = [a \in DOMAIN heap \ {List[k] : k \in DOMAIN List} |-> heap[a]]
  /\ cars' = NoCar
  /\ entries' = <<>> /\ UNCHANGED left

RaceNext == RaceState \/ Turn \/ EndRace

RaceSpec == RaceInit /\ [][RaceNext]_raceVars
-----------------------------------------------------------------------------
RaceTypeOK ==
  /\ cars \in DOMAIN heap \cup {NoCar}
  /\ \A a \in DOMAIN heap :
       /\ heap[a].id \in Ids /\ heap[a].laps \in 0 .. MaxEntries
       /\ heap[a].next \in DOMAIN heap \cup {NoCar}

(* No node is ever cut off the list, so the end of the race frees them     *)
(* all ("Frees the memory allocated for the cars").                        *)
NoCarLost == DOMAIN heap = {List[k] : k \in DOMAIN List}

(* The list is one of cars, all that were made and that no call has freed  *)
(* are on it, and the leaderboard has each car once, by identifier.        *)
Leaderboard ==
  /\ RaceTypeOK /\ NoCarLost
  /\ \A j, k \in DOMAIN List : j < k => Car(j).id < Car(k).id

(* A car is on the board from the first time it was named while malloc had *)
(* memory, with one lap for each time it was named after that; a failure   *)
(* of malloc delays it and changes nothing for the other cars.             *)
Entered(c, before) == \E j \in 1 .. before : entries[j] = [id |-> c, memory |-> TRUE]
LapsOf(c) == {k \in DOMAIN entries : entries[k].id = c /\ Entered(c, k - 1)}

LapsCounted ==
  {<<Car(k).id, Car(k).laps>> : k \in DOMAIN List} =
    {<<c, Cardinality(LapsOf(c))>> : c \in {d \in Ids : Entered(d, Len(entries))}}
=============================================================================
