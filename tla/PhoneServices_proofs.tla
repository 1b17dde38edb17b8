------------------------- MODULE PhoneServices_proofs ------------------------
(***************************************************************************)
(* Theorems about the services in the phone process.                       *)
(*                                                                         *)
(* OemService, for any handlers and any number of registrations and        *)
(* events.  A record that is in the list, or on its way into it, has an    *)
(* owner, and a death notice is for a record whose owner is dead           *)
(* (ListInv); this must speak of the records on their way too, for their   *)
(* notices may come first.  The handlers called so far are a prefix of the *)
(* list at the start of the delivery, and as long as no change is noted    *)
(* the list is still that list (DeliveryInv), so that the iterator's end   *)
(* is the end of the list the delivery began with.                         *)
(*                                                                         *)
(* SecrilClient, for any users, arguments and number of calls, outages and *)
(* phone processes.  What a request becomes on its way is a matter of the  *)
(* encoders and decoders alone (RequestDecoded).  That a success means the *)
(* setting is in force, and stays so, rests on the order of the requests:  *)
(* the request of a call that waits is the only one of its phone process,  *)
(* and behind it there are only attachments (OwnInv), although requests of *)
(* processes that have died may be before it.                              *)
(***************************************************************************)
EXTENDS OemService, SecrilClient, SequenceTheorems, TLAPS

Types ==
    /\ handlers \in Seq(Nat)
    /\ owner \in Seq(Handlers)
    /\ adding \subseteq Nat
    /\ alive \subseteq Handlers
    /\ delivery = None \/ delivery \in Deliveries

\* Records in the list or on their way into it.
Linked == adding \cup Range(handlers)

ListInv ==
    /\ Linked \subseteq DOMAIN owner
    /\ deaths \subseteq DOMAIN owner
    /\ \A r \in deaths : owner[r] \notin alive

DeliveryInv ==
    delivery # None =>
        /\ delivery.cursor = Len(delivery.visited)
        /\ Len(delivery.visited) <= Len(delivery.start)
        /\ \A i \in 1 .. Len(delivery.visited) : delivery.visited[i] = delivery.start[i]
        /\ ~ delivery.changed => handlers = delivery.start

Inv == Types /\ ListInv /\ DeliveryInv

-----------------------------------------------------------------------------
(* The list. *)

\* Removal at a position of the list.
LEMMA Removed ==
    ASSUME NEW list \in Seq(Nat), NEW k \in 1 .. Len(list)
    PROVE  /\ RemoveAt(list, k) \in Seq(Nat)
           /\ \A i \in 1 .. Len(RemoveAt(list, k)) :
                \E j \in (1 .. Len(list)) \ {k} : RemoveAt(list, k)[i] = list[j]
           /\ \A j \in (1 .. Len(list)) \ {k} :
                \E i \in 1 .. Len(RemoveAt(list, k)) : RemoveAt(list, k)[i] = list[j]
<1> DEFINE a == SubSeq(list, 1, k - 1)
           b == SubSeq(list, k + 1, Len(list))
<1>1. Len(list) \in Nat /\ k \in Nat
  OBVIOUS
<1>2. /\ a \in Seq(Nat) /\ Len(a) = k - 1
      /\ \A i \in 1 .. k - 1 : a[i] = list[i]
  BY <1>1
<1>3. /\ b \in Seq(Nat) /\ Len(b) = Len(list) - k
      /\ \A i \in 1 .. Len(list) - k : b[i] = list[k + i]
  BY <1>1
<1> HIDE DEF a, b
<1>4. RemoveAt(list, k) = a \o b
  BY DEF RemoveAt, a, b
<1>5. /\ a \o b \in Seq(Nat) /\ Len(a \o b) = Len(list) - 1
      /\ \A i \in 1 .. Len(list) - 1 :
           (a \o b)[i] = IF i <= k - 1 THEN a[i] ELSE b[i - (k - 1)]
  <2>1. /\ a \o b \in Seq(Nat) /\ Len(a \o b) = Len(a) + Len(b)
        /\ \A i \in 1 .. Len(a) + Len(b) :
             (a \o b)[i] = IF i <= Len(a) THEN a[i] ELSE b[i - Len(a)]
    BY <1>2, <1>3, ConcatProperties, Zenon
  <2>2. Len(a) = k - 1 /\ Len(b) = Len(list) - k /\ Len(a) + Len(b) = Len(list) - 1
    BY <1>1, <1>2, <1>3
  <2> QED BY <2>1, <2>2
<1>6. ASSUME NEW i \in 1 .. Len(list) - 1
      PROVE  \E j \in (1 .. Len(list)) \ {k} : (a \o b)[i] = list[j]
  <2>1. CASE i <= k - 1
    <3>1. (a \o b)[i] = list[i]
      BY <1>1, <1>2, <1>5, <2>1
    <3>2. i \in (1 .. Len(list)) \ {k}
      BY <1>1, <2>1
    <3> QED BY <3>1, <3>2
  <2>2. CASE ~ (i <= k - 1)
    <3>1. (a \o b)[i] = b[i - (k - 1)]
      BY <1>5, <2>2
    <3>2. b[i - (k - 1)] = list[i + 1]
      BY <1>1, <1>3, <2>2
    <3>3. i + 1 \in (1 .. Len(list)) \ {k}
      BY <1>1, <2>2
    <3> QED BY <3>1, <3>2, <3>3
  <2> QED BY <2>1, <2>2
<1>7. ASSUME NEW j \in (1 .. Len(list)) \ {k}
      PROVE  \E i \in 1 .. Len(list) - 1 : (a \o b)[i] = list[j]
  <2>1. CASE j <= k - 1
    <3>1. j \in 1 .. Len(list) - 1 /\ (a \o b)[j] = list[j]
      BY <1>1, <1>2, <1>5, <2>1
    <3> QED BY <3>1
  <2>2. CASE ~ (j <= k - 1)
    <3>1. j - 1 \in 1 .. Len(list) - 1 /\ ~ (j - 1 <= k - 1)
      BY <1>1, <2>2
    <3>2. (a \o b)[j - 1] = b[(j - 1) - (k - 1)]
      BY <1>5, <3>1
    <3>3. (j - 1) - (k - 1) = j - k /\ j - k \in 1 .. Len(list) - k /\ k + (j - k) = j
      BY <1>1, <2>2
    <3>4. b[j - k] = list[j]
      BY <1>3, <3>3
    <3> QED BY <3>1, <3>2, <3>3, <3>4
  <2> QED BY <2>1, <2>2
<1> QED BY <1>4, <1>5, <1>6, <1>7

\* The members of a list are its elements.
LEMMA RangeOfList ==
    ASSUME NEW list \in Seq(Nat)
    PROVE  /\ \A x : x \in Range(list) <=> \E i \in 1 .. Len(list) : list[i] = x
           /\ DOMAIN list = 1 .. Len(list)
           /\ Range(list) \subseteq Nat
BY DEF Range

\* What Without leaves is in the list already, and all but the record is left.
LEMMA WithoutShrinks ==
    ASSUME NEW list \in Seq(Nat), NEW r
    PROVE  /\ Without(list, r) \in Seq(Nat) /\ Range(Without(list, r)) \subseteq Range(list)
           /\ \A x \in Range(list) : x = r \/ x \in Range(Without(list, r))
<1>1. CASE r \in Range(list)
  <2> DEFINE k == CHOOSE j \in DOMAIN list : list[j] = r
  <2>1. k \in 1 .. Len(list)
    BY <1>1, RangeOfList
  <2>2. list[k] = r
    BY <1>1, RangeOfList
  <2>3. Without(list, r) = RemoveAt(list, k)
    BY <1>1 DEF Without
  <2> DEFINE rest == RemoveAt(list, k)
  <2> HIDE DEF k
  <2>4. /\ rest \in Seq(Nat)
        /\ \A i \in 1 .. Len(rest) : \E j \in (1 .. Len(list)) \ {k} : rest[i] = list[j]
        /\ \A j \in (1 .. Len(list)) \ {k} : \E i \in 1 .. Len(rest) : rest[i] = list[j]
    BY <2>1, Removed
  <2> HIDE DEF rest
  <2>5. ASSUME NEW x \in Range(rest)
        PROVE  x \in Range(list)
    <3>1. PICK i \in 1 .. Len(rest) : rest[i] = x
      BY <2>4, RangeOfList
    <3>2. PICK j \in 1 .. Len(list) : x = list[j]
      BY <2>4, <3>1
    <3> QED BY <3>2, RangeOfList
  <2>6. ASSUME NEW x \in Range(list), x # r
        PROVE  x \in Range(rest)
    <3>1. PICK j \in 1 .. Len(list) : list[j] = x
      BY RangeOfList
    <3>2. j \in (1 .. Len(list)) \ {k}
      BY <2>2, <2>6, <3>1
    <3>3. PICK i \in 1 .. Len(rest) : rest[i] = list[j]
      BY <2>4, <3>2
    <3> QED BY <2>4, <3>1, <3>3, RangeOfList
  <2> QED BY <2>3, <2>4, <2>5, <2>6 DEF rest
<1>2. CASE r \notin Range(list)
  BY <1>2 DEF Without
<1> QED BY <1>1, <1>2

LEMMA AppendGrows ==
    ASSUME NEW list \in Seq(Nat), NEW r \in Nat
    PROVE  Append(list, r) \in Seq(Nat) /\ Range(Append(list, r)) = Range(list) \cup {r}
<1>1. /\ Append(list, r) \in Seq(Nat) /\ Len(list) \in Nat
      /\ Len(Append(list, r)) = Len(list) + 1
      /\ \A i \in 1 .. Len(list) : Append(list, r)[i] = list[i]
      /\ Append(list, r)[Len(list) + 1] = r
  OBVIOUS
<1>2. ASSUME NEW x \in Range(Append(list, r))
      PROVE  x \in Range(list) \cup {r}
  <2>1. PICK i \in 1 .. Len(list) + 1 : Append(list, r)[i] = x
    BY <1>1, RangeOfList
  <2>2. CASE i \in 1 .. Len(list)
    BY <1>1, <2>1, <2>2, RangeOfList
  <2>3. CASE i = Len(list) + 1
    BY <1>1, <2>1, <2>3
  <2> QED BY <1>1, <2>2, <2>3
<1>3. ASSUME NEW x \in Range(list)
      PROVE  x \in Range(Append(list, r))
  <2>1. PICK i \in 1 .. Len(list) : list[i] = x
    BY RangeOfList
  <2>2. i \in 1 .. Len(Append(list, r)) /\ Append(list, r)[i] = x
    BY <1>1, <2>1
  <2> QED BY <1>1, <2>2, RangeOfList
<1>4. r \in Range(Append(list, r))
  <2>1. Len(list) + 1 \in 1 .. Len(Append(list, r))
    BY <1>1
  <2> QED BY <1>1, <2>1, RangeOfList
<1> QED BY <1>1, <1>2, <1>3, <1>4

\* unregisterEventHandler: the proxy of this call is in no record.
LEMMA UnregisteredList ==
    ASSUME Types, ListInv
    PROVE  Unregistered = handlers
<1>1. NewProxy \notin DOMAIN owner
  BY DEF Types, NewProxy
<1>2. NewProxy \notin Range(handlers)
  BY <1>1 DEF ListInv, Linked
<1> QED BY <1>2 DEF Unregistered, Without

\* A step that makes no new record and changes the list only by taking records
\* away keeps ListInv; so does one that moves a record into the list.
LEMMA ListShrinks ==
    ASSUME ListInv, owner' = owner, Linked' \subseteq Linked,
           deaths' \subseteq deaths, alive' \subseteq alive
    PROVE  ListInv'
BY DEF ListInv

\* A new record of h.
LEMMA ListGrows ==
    ASSUME Types, ListInv, NEW h \in Handlers,
           owner' = Append(owner, h), UNCHANGED << deaths, alive >>,
           Linked' \subseteq Linked \cup {NewProxy}
    PROVE  ListInv' /\ owner' \in Seq(Handlers)
<1>1. owner \in Seq(Handlers)
  BY DEF Types
<1>2. /\ owner' \in Seq(Handlers)
      /\ Len(owner) \in Nat
      /\ DOMAIN owner = 1 .. Len(owner)
      /\ DOMAIN owner' = 1 .. Len(owner) + 1
      /\ \A r \in 1 .. Len(owner) : owner'[r] = owner[r]
      /\ owner'[Len(owner) + 1] = h
  BY <1>1
<1>3. Linked' \subseteq DOMAIN owner'
  BY <1>2 DEF ListInv, NewProxy
<1>4. deaths' \subseteq DOMAIN owner' /\ \A r \in deaths' : owner'[r] \notin alive'
  BY <1>2 DEF ListInv
<1> QED BY <1>2, <1>3, <1>4 DEF ListInv

-----------------------------------------------------------------------------
(* The delivery. *)

\* A step that leaves the delivery alone, and the list too while there is one.
LEMMA DeliveryStays ==
    ASSUME Types, DeliveryInv, delivery' = delivery,
           handlers' = handlers \/ delivery = None
    PROVE  DeliveryInv' /\ (delivery' = None \/ delivery' \in Deliveries)
BY DEF DeliveryInv, Types

LEMMA DeliveryEnds ==
    ASSUME delivery' = None
    PROVE  DeliveryInv' /\ (delivery' = None \/ delivery' \in Deliveries)
BY DEF DeliveryInv

\* The iterator as a record with a field for each variable of the loop.
LEMMA DeliveryFields ==
    ASSUME NEW d \in Deliveries
    PROVE  /\ d.cursor \in Nat /\ d.current \in Nat \cup {None} /\ d.changed \in BOOLEAN
           /\ d.start \in Seq(Nat) /\ d.visited \in Seq(Nat)
           /\ d = [cursor |-> d.cursor, current |-> d.current, changed |-> d.changed,
                   start |-> d.start, visited |-> d.visited]
BY DEF Deliveries

\* During a call: the iterator does not move, and a change of the list is noted.
LEMMA DeliveryGoesOn ==
    ASSUME Types, DeliveryInv, delivery # None,
           NEW c \in Nat \cup {None}, NEW b \in BOOLEAN,
           delivery' = [cursor |-> delivery.cursor, current |-> c, changed |-> b,
                        start |-> delivery.start, visited |-> delivery.visited],
           ~ b => handlers' = handlers /\ ~ delivery.changed
    PROVE  DeliveryInv' /\ delivery' \in Deliveries
<1>1. delivery \in Deliveries
  BY DEF Types
<1>2. delivery' \in Deliveries
  BY <1>1, DeliveryFields DEF Deliveries
<1>3. /\ delivery'.cursor = delivery.cursor /\ delivery'.changed = b
      /\ delivery'.start = delivery.start /\ delivery'.visited = delivery.visited
  OBVIOUS
<1> QED BY <1>2, <1>3 DEF DeliveryInv

LEMMA TakeEventDelivers ==
    ASSUME Types, TakeEvent
    PROVE  DeliveryInv' /\ delivery' \in Deliveries
<1>1. handlers' = handlers /\ handlers \in Seq(Nat)
  BY DEF TakeEvent, listVars, Types
<1>2. delivery' = [cursor |-> 0, current |-> None, changed |-> FALSE,
                   start |-> handlers, visited |-> << >>]
  BY DEF TakeEvent
<1>3. delivery' \in Deliveries
  BY <1>1, <1>2 DEF Deliveries
<1>4. /\ delivery'.cursor = 0 /\ delivery'.visited = << >> /\ delivery'.start = handlers
  BY <1>2
<1>5. Len(handlers) \in Nat
  BY <1>1
<1> QED BY <1>1, <1>3, <1>4, <1>5 DEF DeliveryInv

\* The step of the iterator, unless it is at the end or finds the list changed,
\* calls the next handler of the list at the start.
LEMMA AdvanceCalls ==
    ASSUME Types, DeliveryInv, delivery # None, Advance, handlers' = handlers,
           delivery.cursor # Len(handlers), ~ delivery.changed
    PROVE  DeliveryInv' /\ delivery' \in Deliveries
<1>1. delivery \in Deliveries
  BY DEF Types
<1> DEFINE r == handlers[delivery.cursor + 1]
           v == delivery.visited
           s == delivery.start
<1>2. delivery' = [cursor |-> delivery.cursor + 1, current |-> r,
                      changed |-> FALSE, start |-> s, visited |-> Append(v, r)]
  BY DEF Advance
<1>3. /\ delivery.cursor \in Nat /\ delivery.changed \in BOOLEAN
      /\ v \in Seq(Nat) /\ s \in Seq(Nat)
  BY <1>1, DeliveryFields
<1>4. /\ delivery.cursor = Len(v) /\ Len(v) <= Len(s) /\ handlers = s
      /\ \A i \in 1 .. Len(v) : v[i] = s[i]
  BY <1>2 DEF DeliveryInv
<1>5. PICK n \in Nat : n = Len(v)
  BY <1>3
<1>6. n < Len(s) /\ Len(s) \in Nat /\ n + 1 \in 1 .. Len(s) /\ r = s[n + 1]
  BY <1>2, <1>3, <1>4, <1>5
<1> HIDE DEF r, v, s
<1>7. r \in Nat
  BY <1>3, <1>6
<1>8. /\ Append(v, r) \in Seq(Nat) /\ Len(Append(v, r)) = n + 1
      /\ \A i \in 1 .. n : Append(v, r)[i] = v[i]
      /\ Append(v, r)[n + 1] = r
  BY <1>3, <1>5, <1>7
<1>9. delivery' \in Deliveries
  BY <1>2, <1>3, <1>7, <1>8 DEF Deliveries
<1>10. /\ delivery'.cursor = n + 1 /\ delivery'.visited = Append(v, r)
       /\ delivery'.start = s /\ handlers' = s
  BY <1>2, <1>4, <1>5
<1>11. \A i \in 1 .. n + 1 : Append(v, r)[i] = s[i]
  BY <1>4, <1>5, <1>6, <1>8
<1> QED BY <1>6, <1>8, <1>9, <1>10, <1>11 DEF DeliveryInv

LEMMA AdvanceDelivers ==
    ASSUME Types, DeliveryInv, delivery # None, Advance, handlers' = handlers
    PROVE  DeliveryInv' /\ (delivery' = None \/ delivery' \in Deliveries)
<1>1. CASE delivery.cursor = Len(handlers) \/ delivery.changed
  <2>1. delivery' = None
    BY <1>1 DEF Advance, Finish
  <2> QED BY <2>1, DeliveryEnds
<1>2. CASE delivery.cursor # Len(handlers) /\ ~ delivery.changed
  BY <1>2, AdvanceCalls
<1> QED BY <1>1, <1>2

-----------------------------------------------------------------------------
(* The actions. *)

LEMMA InitInv == Init => Inv
<1> SUFFICES ASSUME Init PROVE Inv
  OBVIOUS
<1>1. Types
  BY DEF Init, Types
<1>2. Linked = {}
  <2>1. Range(handlers) = {}
    BY DEF Init, Range
  <2> QED BY <2>1 DEF Init, Linked
<1>3. ListInv
  BY <1>2 DEF ListInv, Init
<1>4. DeliveryInv
  BY DEF Init, DeliveryInv
<1> QED BY <1>1, <1>3, <1>4 DEF Inv

\* A step that touches neither the list nor the delivery.
LEMMA OthersStep ==
    ASSUME Inv, UNCHANGED << handlers, owner, adding, deaths, delivery >>,
           deaths' = deaths, alive' = alive
    PROVE  Inv'
<1>1. Types'
  BY DEF Inv, Types
<1>2. Linked' = Linked
  BY DEF Linked
<1>3. ListInv'
  BY <1>2, ListShrinks DEF Inv
<1>4. DeliveryInv'
  BY DeliveryStays DEF Inv
<1> QED BY <1>1, <1>3, <1>4 DEF Inv

\* A notice goes to records of the handler that died.
LEMMA DieStep ==
    ASSUME Inv, NEW h \in Handlers, Die(h)
    PROVE  Inv'
<1>1. /\ alive' = alive \ {h} /\ deaths' \subseteq deaths \cup Of(h)
      /\ UNCHANGED << handlers, owner, adding, delivery >>
  BY DEF Die, eventVars
<1>2. Types'
  BY <1>1 DEF Inv, Types
<1>3. Linked' = Linked
  BY <1>1 DEF Linked
<1>4. ListInv'
  BY <1>1, <1>3 DEF Inv, ListInv, Of
<1>5. DeliveryInv'
  BY <1>1, DeliveryStays DEF Inv
<1> QED BY <1>2, <1>4, <1>5 DEF Inv

LEMMA RegisterLinkStep ==
    ASSUME Inv, NEW h \in Handlers, RegisterLink(h)
    PROVE  Inv'
<1>1. /\ owner' = Append(owner, h) /\ adding' = adding \cup {NewProxy}
      /\ handlers' = handlers /\ delivery' = delivery
      /\ deaths' = deaths /\ alive' = alive
  BY DEF RegisterLink, eventVars
<1>2. NewProxy \in Nat
  BY DEF Inv, Types, NewProxy
<1>3. Linked' \subseteq Linked \cup {NewProxy}
  BY <1>1 DEF Linked
<1>4. ListInv' /\ owner' \in Seq(Handlers)
  BY <1>1, <1>3, ListGrows DEF Inv
<1>5. DeliveryInv' /\ (delivery' = None \/ delivery' \in Deliveries)
  BY <1>1, DeliveryStays DEF Inv
<1>6. Types'
  BY <1>1, <1>2, <1>4, <1>5 DEF Inv, Types
<1> QED BY <1>4, <1>5, <1>6 DEF Inv

LEMMA RegisterAddStep ==
    ASSUME Inv, NEW r, RegisterAdd(r)
    PROVE  Inv'
<1>1. /\ r \in adding /\ delivery = None /\ handlers' = Append(handlers, r)
      /\ adding' = adding \ {r} /\ UNCHANGED << owner, deaths, alive, delivery >>
  BY DEF RegisterAdd, MonitorFree, eventVars
<1>2. r \in Nat /\ handlers \in Seq(Nat)
  BY <1>1 DEF Inv, Types
<1>3. handlers' \in Seq(Nat) /\ Range(handlers') = Range(handlers) \cup {r}
  BY <1>1, <1>2, AppendGrows
<1>4. Linked' \subseteq Linked
  BY <1>1, <1>3 DEF Linked
<1>5. ListInv'
  BY <1>1, <1>4, ListShrinks DEF Inv
<1>6. DeliveryInv' /\ (delivery' = None \/ delivery' \in Deliveries)
  BY <1>1, DeliveryEnds
<1>7. Types'
  BY <1>1, <1>3, <1>6 DEF Inv, Types
<1> QED BY <1>5, <1>6, <1>7 DEF Inv

LEMMA UnregisterStep ==
    ASSUME Inv, NEW h \in Handlers, Unregister(h)
    PROVE  Inv'
<1>1. handlers' = Unregistered /\ UNCHANGED << owner, adding, deaths, alive, delivery >>
  BY DEF Unregister, eventVars
<1>2. handlers' = handlers
  BY <1>1, UnregisteredList DEF Inv
<1> QED BY <1>1, <1>2, OthersStep

\* The removal of a record, by removeSelf.
LEMMA RemoveSelfKeeps ==
    ASSUME Inv, NEW r, handlers' = Without(handlers, r),
           UNCHANGED << owner, adding, alive >>, deaths' \subseteq deaths
    PROVE  ListInv' /\ handlers' \in Seq(Nat)
<1>1. handlers' \in Seq(Nat) /\ Range(handlers') \subseteq Range(handlers)
  BY WithoutShrinks DEF Inv, Types
<1>2. Linked' \subseteq Linked
  BY <1>1 DEF Linked
<1> QED BY <1>1, <1>2, ListShrinks DEF Inv

LEMMA BinderDiedStep ==
    ASSUME Inv, NEW r, BinderDied(r)
    PROVE  Inv'
<1>1. /\ delivery = None /\ handlers' = Without(handlers, r)
      /\ deaths' \subseteq deaths
      /\ UNCHANGED << owner, adding, alive, delivery >>
  BY DEF BinderDied, MonitorFree, eventVars
<1>2. ListInv' /\ handlers' \in Seq(Nat)
  BY <1>1, RemoveSelfKeeps
<1>3. DeliveryInv' /\ (delivery' = None \/ delivery' \in Deliveries)
  BY <1>1, DeliveryEnds
<1>4. Types'
  BY <1>1, <1>2, <1>3 DEF Inv, Types
<1> QED BY <1>2, <1>3, <1>4 DEF Inv

\* A step of the delivery that leaves the list alone.
LEMMA DeliveryStep ==
    ASSUME Inv, UNCHANGED << handlers, owner, adding, deaths, alive >>,
           DeliveryInv', delivery' = None \/ delivery' \in Deliveries
    PROVE  Inv'
<1>1. Types'
  BY DEF Inv, Types
<1>2. Linked' = Linked
  BY DEF Linked
<1>3. ListInv'
  BY <1>2, ListShrinks DEF Inv
<1> QED BY <1>1, <1>3 DEF Inv

LEMMA TakeEventStep ==
    ASSUME Inv, TakeEvent
    PROVE  Inv'
<1>1. DeliveryInv' /\ delivery' \in Deliveries
  BY TakeEventDelivers DEF Inv
<1>2. UNCHANGED << handlers, owner, adding, deaths, alive >>
  BY DEF TakeEvent, listVars
<1> QED BY <1>1, <1>2, DeliveryStep

LEMMA NextHandlerStep ==
    ASSUME Inv, NextHandler
    PROVE  Inv'
<1>1. delivery # None /\ Advance /\ UNCHANGED << handlers, owner, adding, deaths, alive >>
  BY DEF NextHandler, listVars
<1>2. DeliveryInv' /\ (delivery' = None \/ delivery' \in Deliveries)
  BY <1>1, AdvanceDelivers DEF Inv
<1> QED BY <1>1, <1>2, DeliveryStep

\* Updates of the delivery during a call, as records.
LEMMA DeliveryUpdates ==
    ASSUME NEW d \in Deliveries
    PROVE  /\ [d EXCEPT !.current = None] =
                [cursor |-> d.cursor, current |-> None, changed |-> d.changed,
                 start |-> d.start, visited |-> d.visited]
           /\ \A b : [d EXCEPT !.changed = b] =
                [cursor |-> d.cursor, current |-> d.current, changed |-> b,
                 start |-> d.start, visited |-> d.visited]
<1>1. [d EXCEPT !.current = None] =
        [cursor |-> d.cursor, current |-> None, changed |-> d.changed,
         start |-> d.start, visited |-> d.visited]
  BY DEF Deliveries
<1>2. ASSUME NEW b
      PROVE  [d EXCEPT !.changed = b] =
               [cursor |-> d.cursor, current |-> d.current, changed |-> b,
                start |-> d.start, visited |-> d.visited]
  BY DEF Deliveries
<1> QED BY <1>1, <1>2

LEMMA HandlerReturnsStep ==
    ASSUME Inv, HandlerReturns
    PROVE  Inv'
<1>1. /\ delivery # None /\ delivery' = [delivery EXCEPT !.current = None]
      /\ UNCHANGED << handlers, owner, adding, deaths, alive >>
  BY DEF HandlerReturns, InCall, listVars
<1>2. delivery \in Deliveries
  BY <1>1 DEF Inv, Types
<1>3. delivery' = [cursor |-> delivery.cursor, current |-> None,
                   changed |-> delivery.changed, start |-> delivery.start,
                   visited |-> delivery.visited]
  BY <1>1, <1>2, DeliveryUpdates
<1>4. delivery.changed \in BOOLEAN
  BY <1>2, DeliveryFields
<1>5. DeliveryInv' /\ delivery' \in Deliveries
  BY <1>1, <1>3, <1>4, DeliveryGoesOn DEF Inv
<1> QED BY <1>1, <1>5, DeliveryStep

LEMMA HandlerThrowsStep ==
    ASSUME Inv, HandlerThrows
    PROVE  Inv'
<1>1. delivery' = None /\ UNCHANGED << handlers, owner, adding, deaths, alive >>
  BY DEF HandlerThrows, Finish, listVars
<1> QED BY <1>1, DeliveryEnds, DeliveryStep

LEMMA HandlerDeadStep ==
    ASSUME Inv, HandlerDead
    PROVE  Inv'
<1>1. PICK b \in BOOLEAN : b = (delivery.changed \/ handlers' # handlers)
  OBVIOUS
<1>2. /\ delivery # None /\ handlers' = Without(handlers, delivery.current)
      /\ delivery' = [cursor |-> delivery.cursor, current |-> None,
                      changed |-> delivery.changed \/ handlers' # handlers,
                      start |-> delivery.start, visited |-> delivery.visited]
      /\ UNCHANGED << owner, adding, deaths, alive >>
  BY DEF HandlerDead, InCall
<1>3. delivery \in Deliveries
  BY <1>2 DEF Inv, Types
<1>5. delivery' = [cursor |-> delivery.cursor, current |-> None, changed |-> b,
                   start |-> delivery.start, visited |-> delivery.visited]
  BY <1>1, <1>2
<1>6. ~ b => handlers' = handlers /\ ~ delivery.changed
  BY <1>1
<1>7. DeliveryInv' /\ delivery' \in Deliveries
  BY <1>2, <1>5, <1>6, DeliveryGoesOn DEF Inv
<1>8. ListInv' /\ handlers' \in Seq(Nat)
  BY <1>2, RemoveSelfKeeps
<1>9. Types'
  BY <1>2, <1>7, <1>8 DEF Inv, Types
<1> QED BY <1>7, <1>8, <1>9 DEF Inv

LEMMA NestedRegisterStep ==
    ASSUME Inv, NestedRegister
    PROVE  Inv'
<1>1. /\ delivery # None /\ Callee \in alive /\ owner' = Append(owner, Callee)
      /\ handlers' = Append(handlers, NewProxy)
      /\ delivery' = [delivery EXCEPT !.changed = TRUE]
      /\ UNCHANGED << adding, deaths, alive >>
  BY DEF NestedRegister, InCall, MayCall
<1>2. PICK h \in Handlers : h = Callee
  BY <1>1 DEF Inv, Types
<1>3. NewProxy \in Nat /\ handlers \in Seq(Nat)
  BY DEF Inv, Types, NewProxy
<1>4. handlers' \in Seq(Nat) /\ Range(handlers') = Range(handlers) \cup {NewProxy}
  BY <1>1, <1>3, AppendGrows
<1>5. Linked' \subseteq Linked \cup {NewProxy}
  BY <1>1, <1>4 DEF Linked
<1>6. ListInv' /\ owner' \in Seq(Handlers)
  BY <1>1, <1>2, <1>5, ListGrows DEF Inv
<1>7. delivery \in Deliveries /\ delivery.current \in Nat \cup {None}
  BY <1>1, DeliveryFields DEF Inv, Types
<1>8. delivery' = [cursor |-> delivery.cursor, current |-> delivery.current,
                   changed |-> TRUE, start |-> delivery.start,
                   visited |-> delivery.visited]
  BY <1>1, <1>7, DeliveryUpdates
<1>9. DeliveryInv' /\ delivery' \in Deliveries
  BY <1>1, <1>7, <1>8, DeliveryGoesOn DEF Inv
<1>10. Types'
  BY <1>1, <1>4, <1>6, <1>9 DEF Inv, Types
<1> QED BY <1>6, <1>9, <1>10 DEF Inv

LEMMA NestedUnregisterStep ==
    ASSUME Inv, NestedUnregister
    PROVE  Inv' /\ handlers' = handlers
<1>1. handlers' = handlers /\ delivery # None /\ UNCHANGED << owner, adding, deaths, alive >>
  BY UnregisteredList DEF NestedUnregister, InCall, Inv
<1>2. delivery \in Deliveries
  BY <1>1 DEF Inv, Types
<1>3. /\ delivery.current \in Nat \cup {None} /\ delivery.changed \in BOOLEAN
  BY <1>2, DeliveryFields
<1>4. PICK b \in BOOLEAN : b = (delivery.changed \/ handlers' # handlers)
  OBVIOUS
<1>5. delivery' = [delivery EXCEPT !.changed = b]
  BY <1>4 DEF NestedUnregister
<1>6. delivery' = [cursor |-> delivery.cursor, current |-> delivery.current,
                   changed |-> b, start |-> delivery.start, visited |-> delivery.visited]
  BY <1>2, <1>5, DeliveryUpdates
<1>7. ~ b => handlers' = handlers /\ ~ delivery.changed
  BY <1>4
<1>8. DeliveryInv' /\ delivery' \in Deliveries
  BY <1>1, <1>3, <1>6, <1>7, DeliveryGoesOn DEF Inv
<1> QED BY <1>1, <1>8, DeliveryStep

LEMMA NextInv == Inv /\ [Next]_vars => Inv'
<1> SUFFICES ASSUME Inv, [Next]_vars PROVE Inv'
  OBVIOUS
<1>1. CASE \/ OnStartCommand \/ RegisterServices \/ ServiceRegistrationFailed
           \/ OnDestroy
  BY <1>1, OthersStep DEF OnStartCommand, RegisterServices, ServiceRegistrationFailed,
                          OnDestroy, listVars, eventVars
<1>2. CASE \E h \in Handlers : RegisterLink(h)
  BY <1>2, RegisterLinkStep
<1>3. CASE \E h \in Handlers : Unregister(h)
  BY <1>3, UnregisterStep
<1>4. CASE \E h \in Handlers : Die(h)
  BY <1>4, DieStep
<1>5. CASE \E r \in Records : RegisterAdd(r)
  BY <1>5, RegisterAddStep
<1>6. CASE \E r \in Records : BinderDied(r)
  BY <1>6, BinderDiedStep
<1>7. CASE \E screen \in {"empty", "placeholder", "lines"} : HandleSvcDisplayScreen(screen)
  BY <1>7, OthersStep DEF HandleSvcDisplayScreen, listVars
<1>8. CASE TakeEvent
  BY <1>8, TakeEventStep
<1>9. CASE NextHandler
  BY <1>9, NextHandlerStep
<1>10. CASE HandlerReturns \/ HandlerThrows \/ HandlerDead
  BY <1>10, HandlerReturnsStep, HandlerThrowsStep, HandlerDeadStep
<1>11. CASE NestedRegister \/ NestedUnregister
  BY <1>11, NestedRegisterStep, NestedUnregisterStep
<1>12. CASE UNCHANGED vars
  BY <1>12, OthersStep DEF vars, listVars, eventVars
<1> QED BY <1>1, <1>2, <1>3, <1>4, <1>5, <1>6, <1>7, <1>8, <1>9, <1>10, <1>11, <1>12
        DEF Next

\* The inductive invariant.
THEOREM Invariance == Spec => []Inv
BY InitInv, NextInv, PTL DEF Spec

\* A record whose handler's process lives is never taken out of mEventHandlers:
\* not by a death notice, in whatever order notices, registrations and events
\* come, not by a delivery in which handlers die, throw or call back, and not by
\* unregisterEventHandler either.
THEOREM RegistrationsLast == Spec => OnlyDeathEnds
<1>1. Inv /\ [Next]_vars =>
        [\A r \in Range(handlers) : r \in Range(handlers') \/ owner[r] \notin alive]_vars
  <2> SUFFICES ASSUME Inv, [Next]_vars, NEW x \in Range(handlers)
               PROVE  x \in Range(handlers') \/ owner[x] \notin alive
    OBVIOUS
  <2>1. handlers \in Seq(Nat)
    BY DEF Inv, Types
  <2>3. CASE \E r \in Records : RegisterAdd(r)
    <3>1. PICK r : r \in adding /\ handlers' = Append(handlers, r)
      BY <2>3 DEF RegisterAdd
    <3>2. r \in Nat
      BY <3>1 DEF Inv, Types
    <3> QED BY <2>1, <3>1, <3>2, AppendGrows
  <2>4. CASE \E r \in Records : BinderDied(r)
    <3>1. PICK r : r \in deaths /\ handlers' = Without(handlers, r)
      BY <2>4 DEF BinderDied
    <3>2. owner[r] \notin alive
      BY <3>1 DEF Inv, ListInv
    <3> QED BY <2>1, <3>1, <3>2, WithoutShrinks
  <2>5. CASE HandlerDead
    <3>1. handlers' = Without(handlers, delivery.current)
          /\ owner[delivery.current] \notin alive
      BY <2>5 DEF HandlerDead, Callee
    <3> QED BY <2>1, <3>1, WithoutShrinks
  <2>6. CASE NestedRegister
    <3>1. handlers' = Append(handlers, NewProxy) /\ NewProxy \in Nat
      BY <2>6 DEF NestedRegister, NewProxy, Inv, Types
    <3> QED BY <2>1, <3>1, AppendGrows
  <2>7. CASE NestedUnregister
    BY <2>7, NestedUnregisterStep
  <2>8. CASE \E h \in Handlers : Unregister(h)
    <3>1. handlers' = Unregistered
      BY <2>8 DEF Unregister
    <3> QED BY <3>1, UnregisteredList DEF Inv
  <2>9. CASE \E h \in Handlers : RegisterLink(h) \/ Die(h)
    <3>1. handlers' = handlers
      BY <2>9 DEF RegisterLink, Die
    <3> QED BY <3>1
  <2>10. CASE \/ OnStartCommand \/ RegisterServices \/ ServiceRegistrationFailed \/ OnDestroy
             \/ TakeEvent \/ NextHandler \/ HandlerReturns \/ HandlerThrows
             \/ \E screen \in {"empty", "placeholder", "lines"} : HandleSvcDisplayScreen(screen)
             \/ UNCHANGED vars
    <3>1. handlers' = handlers
      BY <2>10 DEF vars, listVars, OnStartCommand, RegisterServices,
         ServiceRegistrationFailed, OnDestroy, HandleSvcDisplayScreen,
         TakeEvent, NextHandler, HandlerReturns, HandlerThrows
    <3> QED BY <3>1
  <2> QED BY <2>3, <2>4, <2>5, <2>6, <2>7, <2>8, <2>9, <2>10 DEF Next
<1> QED BY <1>1, Invariance, PTL DEF Spec, OnlyDeathEnds

\* Only the end of the loop, a change of the list or a call that throws ends a
\* delivery.
LEMMA DeliveryEndsWhere ==
    ASSUME Inv, Next, delivery # None, delivery' = None
    PROVE  \/ delivery.cursor = Len(handlers)
           \/ delivery.changed
           \/ delivery.current # None
<1>1. delivery \in Deliveries
  BY DEF Inv, Types
<1>2. CASE NextHandler
  <2>1. SUFFICES ASSUME delivery.cursor # Len(handlers), ~ delivery.changed
                 PROVE  FALSE
    OBVIOUS
  <2>2. Advance /\ handlers' = handlers
    BY <1>2 DEF NextHandler, listVars
  <2>3. delivery' \in Deliveries
    BY <2>1, <2>2, AdvanceCalls DEF Inv
  <2> QED BY <2>3, ConstantsAssumption
<1>3. CASE InCall
  BY <1>3 DEF InCall
<1>4. CASE ~ NextHandler /\ ~ InCall
  <2>1. delivery' = delivery
    BY <1>4 DEF Next, MainIdle, MonitorFree, eventVars, OnStartCommand, RegisterServices,
                ServiceRegistrationFailed, OnDestroy, RegisterLink, RegisterAdd, Unregister,
                BinderDied, Die, HandleSvcDisplayScreen, TakeEvent, HandlerReturns,
                HandlerThrows, HandlerDead, NestedRegister, NestedUnregister
  <2> QED BY <2>1
<1> QED BY <1>2, <1>3, <1>4

LEMMA PrefixOfStart ==
    ASSUME NEW v \in Seq(Nat), NEW s \in Seq(Nat), Len(v) <= Len(s),
           \A i \in 1 .. Len(v) : v[i] = s[i]
    PROVE  /\ IsPrefix(v, s)
           /\ Len(v) = Len(s) => v = s
<1>1. Len(v) \in Nat /\ Len(s) \in Nat
  OBVIOUS
<1>2. /\ SubSeq(v, 1, Len(v)) \in Seq(Nat) /\ Len(SubSeq(v, 1, Len(v))) = Len(v)
      /\ \A i \in 1 .. Len(v) : SubSeq(v, 1, Len(v))[i] = v[i]
  BY <1>1
<1>3. /\ SubSeq(s, 1, Len(v)) \in Seq(Nat) /\ Len(SubSeq(s, 1, Len(v))) = Len(v)
      /\ \A i \in 1 .. Len(v) : SubSeq(s, 1, Len(v))[i] = s[i]
  BY <1>1
<1>4. SubSeq(v, 1, Len(v)) = SubSeq(s, 1, Len(v))
  BY <1>2, <1>3, SeqEqual
<1>5. IsPrefix(v, s)
  BY <1>4 DEF IsPrefix
<1>6. ASSUME Len(v) = Len(s) PROVE v = s
  BY <1>6, SeqEqual
<1> QED BY <1>5, <1>6

\* An event goes to the handlers of the list as it was when its delivery began,
\* in order, and to all of them unless the iterator met a change of the list or
\* a handler threw.
THEOREM EventsReachHandlers == Spec => EveryHandlerCalled
<1>1. Inv /\ [Next]_vars =>
        [delivery # None /\ delivery' = None =>
           /\ IsPrefix(delivery.visited, delivery.start)
           /\ \/ delivery.visited = delivery.start
              \/ delivery.changed
              \/ delivery.current # None]_vars
  <2> SUFFICES ASSUME Inv, [Next]_vars, delivery # None, delivery' = None
               PROVE  /\ IsPrefix(delivery.visited, delivery.start)
                      /\ \/ delivery.visited = delivery.start
                         \/ delivery.changed
                         \/ delivery.current # None
    OBVIOUS
  <2>1. Next
    BY DEF vars, eventVars
  <2>2. \/ delivery.cursor = Len(handlers) \/ delivery.changed
        \/ delivery.current # None
    BY <2>1, DeliveryEndsWhere
  <2>3. delivery.visited \in Seq(Nat) /\ delivery.start \in Seq(Nat)
    BY DeliveryFields DEF Inv, Types
  <2>4. /\ delivery.cursor = Len(delivery.visited)
        /\ Len(delivery.visited) <= Len(delivery.start)
        /\ \A i \in 1 .. Len(delivery.visited) : delivery.visited[i] = delivery.start[i]
        /\ ~ delivery.changed => handlers = delivery.start
    BY DEF Inv, DeliveryInv
  <2> QED BY <2>2, <2>3, <2>4, PrefixOfStart
<1> QED BY <1>1, Invariance, PTL DEF Spec, EveryHandlerCalled

-----------------------------------------------------------------------------
(* The way of a setting through the encoders and decoders.                 *)

\* The message that carries each method.
NameOf(method) == IF method = "getMute" THEN "SndGetMicMute" ELSE MessageOf(method)

\* The device one past the table, which handleSetCallVolume lets pass.
PastTable(method, arguments) == method = "setCallVolume" /\ arguments[1] = Len(DeviceMap)

\* A message is the one for a call: its name, and for a setting its fields.
Carries(method, arguments, message) ==
    /\ message[1] = NameOf(method)
    /\ method \in Setters /\ ~ PastTable(method, arguments)
         => Tail(message) \in Meant(method, arguments)

\* What rild may make of a request for a call.
Decodes(method, arguments, outcome) ==
    /\ outcome.status # "SUCCESS"
    /\ outcome.status = "EXECUTE" =>
         method # "samsungOemRequest" /\ Carries(method, arguments, outcome.message)

\* A request is taken apart into the code and the words it was made from.
LEMMA HeaderTaken ==
    ASSUME NEW c \in 1 .. 15, NEW S, NEW words \in Seq(S)
    PROVE  LET parcel == Header(c) \o words
           IN  /\ Len(parcel) >= 3
               /\ parcel[3] = c
               /\ SubSeq(parcel, 1, 2) = << SignatureLow, SignatureHigh >>
               /\ SubSeq(parcel, 4, Len(parcel)) = words
<1> DEFINE T == S \cup Int
           h == Header(c)
           parcel == h \o words
           two == << SignatureLow, SignatureHigh >>
<1>1. /\ h \in Seq(T) /\ Len(h) = 3
      /\ h[1] = SignatureLow /\ h[2] = SignatureHigh /\ h[3] = c
  BY DEF Header, SignatureLow, SignatureHigh
<1>2. words \in Seq(T) /\ Len(words) \in Nat
  BY LenProperties
<1>3. two \in Seq(T) /\ Len(two) = 2 /\ two[1] = SignatureLow /\ two[2] = SignatureHigh
  BY DEF SignatureLow, SignatureHigh
<1> HIDE DEF h, two
<1>4. /\ parcel \in Seq(T) /\ Len(parcel) = 3 + Len(words)
      /\ \A i \in 1 .. 3 : parcel[i] = h[i]
      /\ \A i \in 1 .. Len(words) : parcel[3 + i] = words[i]
  <2> HIDE DEF T
  <2>1. /\ parcel \in Seq(T) /\ Len(parcel) = Len(h) + Len(words)
        /\ \A i \in 1 .. Len(h) + Len(words) :
             parcel[i] = IF i <= Len(h) THEN h[i] ELSE words[i - Len(h)]
    BY <1>1, <1>2, ConcatProperties, Zenon
  <2> HIDE DEF parcel
  <2>2. ASSUME NEW i \in 1 .. Len(words) PROVE parcel[3 + i] = words[i]
    <3>1. 3 + i \in 1 .. Len(h) + Len(words) /\ ~ (3 + i <= 3) /\ (3 + i) - 3 = i
      BY <1>1, <1>2, <2>1
    <3>2. parcel[3 + i] = words[(3 + i) - 3]
      BY <1>1, <2>1, <3>1
    <3> QED BY <3>1, <3>2
  <2>3. ASSUME NEW i \in 1 .. 3 PROVE parcel[i] = h[i]
    BY <1>1, <1>2, <2>1
  <2> QED BY <1>1, <2>1, <2>2, <2>3
<1> HIDE DEF parcel
<1>5. SubSeq(parcel, 1, 2) = two
  <2> DEFINE s == SubSeq(parcel, 1, 2)
  <2>1. s \in Seq(T) /\ Len(s) = 2 /\ s[1] = parcel[1] /\ s[2] = parcel[2]
    BY <1>2, <1>4
  <2> HIDE DEF s
  <2>2. s[1] = two[1] /\ s[2] = two[2]
    BY <1>1, <1>3, <1>4, <2>1
  <2>3. s = two
    BY <1>3, <2>1, <2>2
  <2> QED BY <2>3 DEF s
<1>6. SubSeq(parcel, 4, Len(parcel)) = words
  <2> DEFINE s == SubSeq(parcel, 4, Len(parcel))
  <2>1. /\ s \in Seq(T) /\ Len(s) = Len(words)
        /\ \A i \in 1 .. Len(words) : s[i] = parcel[3 + i]
    BY <1>2, <1>4
  <2> HIDE DEF s
  <2>2. \A i \in 1 .. Len(words) : s[i] = words[i]
    BY <1>2, <1>4, <2>1
  <2>3. s = words
    BY <1>2, <2>1, <2>2
  <2> QED BY <2>3 DEF s
<1>7. Len(parcel) >= 3 /\ parcel[3] = c
  BY <1>1, <1>2, <1>4
<1> QED BY <1>5, <1>6, <1>7 DEF parcel, h, two

LEMMA HeaderDecoded ==
    ASSUME NEW c \in 1 .. 15, NEW S, NEW words \in Seq(S), NEW on, NEW beyond
    PROVE  HandleOemHookRaw(Header(c) \o words, on, beyond) =
             IF c # 1 /\ ~ on THEN Complete("RADIO_NOT_AVAILABLE")
             ELSE IF c \in 2 .. 11 THEN DecodeAudio(OemRequests[c], words, beyond)
             ELSE DecodeOther(OemRequests[c], words)
<1> DEFINE parcel == Header(c) \o words
<1>1. /\ ~ (Len(parcel) < 3) /\ parcel[3] = c
      /\ SubSeq(parcel, 1, 2) = << SignatureLow, SignatureHigh >>
      /\ SubSeq(parcel, 4, Len(parcel)) = words
  <2>1. /\ Len(parcel) >= 3 /\ parcel[3] = c
        /\ SubSeq(parcel, 1, 2) = << SignatureLow, SignatureHigh >>
        /\ SubSeq(parcel, 4, Len(parcel)) = words
    BY HeaderTaken
  <2>2. parcel \in Seq(S \cup Int) /\ Len(parcel) \in Nat
    BY LenProperties DEF Header, SignatureLow, SignatureHigh
  <2> HIDE DEF parcel
  <2> QED BY <2>1, <2>2
<1>2. c \in DOMAIN OemRequests
  BY DEF OemRequests
<1> HIDE DEF parcel
<1>3. HandleOemHookRaw(parcel, on, beyond) =
             IF c # 1 /\ ~ on THEN Complete("RADIO_NOT_AVAILABLE")
             ELSE IF c \in 2 .. 11 THEN DecodeAudio(OemRequests[c], words, beyond)
             ELSE DecodeOther(OemRequests[c], words)
  BY <1>1, <1>2, Zenon DEF HandleOemHookRaw
<1> QED BY <1>3 DEF parcel

LEMMA SendTail ==
    ASSUME NEW name, NEW S, NEW fields \in Seq(S)
    PROVE  LET outcome == Send(name, fields)
           IN  /\ outcome.status = "EXECUTE"
               /\ outcome.message[1] = name
               /\ Tail(outcome.message) = fields
<1> DEFINE T == S \cup {name}
           m == << name >> \o fields
<1>1. fields \in Seq(T) /\ Len(fields) \in Nat
  BY LenProperties
<1>2. << name >> \in Seq(T) /\ Len(<< name >>) = 1 /\ << name >>[1] = name
  OBVIOUS
<1>3. /\ m \in Seq(T) /\ Len(m) = 1 + Len(fields) /\ m[1] = name
      /\ \A i \in 1 .. Len(fields) : m[1 + i] = fields[i]
  BY <1>1, <1>2
<1>4. Send(name, fields).status = "EXECUTE" /\ Send(name, fields).message = m
  BY DEF Send
<1> HIDE DEF m
<1>5. Tail(m) = fields
  <2> DEFINE t == Tail(m)
  <2>1. t \in Seq(T) /\ Len(t) = Len(fields) /\ \A i \in 1 .. Len(fields) : t[i] = m[i + 1]
    BY <1>1, <1>3
  <2> HIDE DEF t
  <2>2. \A i \in 1 .. Len(fields) : t[i] = fields[i]
    BY <1>1, <1>3, <2>1
  <2>3. t = fields
    BY <1>1, <2>1, <2>2
  <2> QED BY <2>3 DEF t
<1> QED BY <1>3, <1>4, <1>5

\* What Decodes asks of an outcome.
LEMMA SendDecodes ==
    ASSUME NEW method, NEW a, NEW F, NEW fields \in Seq(F), method # "samsungOemRequest",
           method \in Setters /\ ~ PastTable(method, a) => fields \in Meant(method, a)
    PROVE  Decodes(method, a, Send(NameOf(method), fields))
<1>1. /\ Send(NameOf(method), fields).status = "EXECUTE"
      /\ Send(NameOf(method), fields).message[1] = NameOf(method)
      /\ Tail(Send(NameOf(method), fields).message) = fields
  BY SendTail
<1> QED BY <1>1 DEF Decodes, Carries

LEMMA FailureDecodes ==
    ASSUME NEW method, NEW a, NEW status \in {"GENERIC_FAILURE", "RADIO_NOT_AVAILABLE"}
    PROVE  Decodes(method, a, Complete(status))
BY DEF Decodes, Complete

\* One request after the other, with its code, its words and its message.
LEMMA SettingDecoded ==
    ASSUME NEW a, NEW on, NEW beyond, NEW method \in {"setLoopbackTest", "setDhaSolution", "setTwoMicControl",
              "setMute", "setCallRecord", "setCallClockSync",
              "setVideoCallClockSync", "enterServiceMode", "exitServiceMode",
              "sendServiceKeyCode"}
    PROVE  Decodes(method, a, HandleOemHookRaw(Build(method, a), on, beyond))
<1> DEFINE off == Complete("RADIO_NOT_AVAILABLE")
<1>0. Decodes(method, a, off)
  BY FailureDecodes
<1>1. CASE method = "setLoopbackTest"
  <2> DEFINE words == << a[1], a[2] >>
             fields == << U8(a[1]) >>
  <2>1. Build("setLoopbackTest", a) = Header(2) \o words
    BY DEF Build, BuildSetLoopbackTest
  <2>2. words \in Seq({a[1], a[2]}) /\ OemRequests[2] = "SET_LOOPBACK_TEST"
    BY DEF OemRequests
  <2>3. DecodeAudio("SET_LOOPBACK_TEST", words, beyond) = Send("SndSetLoopbackCtrl", fields)
    BY DEF DecodeAudio, HandleSetLoopbackTest
  <2>4. fields \in Seq({U8(a[1])}) /\ fields \in Meant("setLoopbackTest", a)
    BY DEF Meant, U8, U16
  <2>5. NameOf("setLoopbackTest") = "SndSetLoopbackCtrl"
    BY DEF NameOf, MessageOf
  <2> HIDE DEF words, fields
  <2>6. HandleOemHookRaw(Header(2) \o words, on, beyond) =
          IF ~ on THEN off ELSE Send("SndSetLoopbackCtrl", fields)
    BY <2>2, <2>3, HeaderDecoded
  <2>7. Decodes("setLoopbackTest", a, Send("SndSetLoopbackCtrl", fields))
    BY <2>4, <2>5, SendDecodes
  <2> QED BY <1>0, <1>1, <2>1, <2>6, <2>7
<1>2. CASE method = "setDhaSolution"
  <2> DEFINE words == << a[1], a[2], a[3] >>
             fields == << U8(a[1]), U8(a[2]), a[3] >>
  <2>1. Build("setDhaSolution", a) = Header(3) \o words
    BY DEF Build, BuildSetDhaSolution
  <2>2. words \in Seq({a[1], a[2], a[3]}) /\ OemRequests[3] = "SET_DHA_SOLUTION"
    BY DEF OemRequests
  <2>3. DecodeAudio("SET_DHA_SOLUTION", words, beyond) = Send("SndSetDhaCtrl", fields)
    BY DEF DecodeAudio, HandleSetDhaSolution
  <2>4. fields \in Seq({U8(a[1]), U8(a[2]), a[3]}) /\ fields \in Meant("setDhaSolution", a)
    BY DEF Meant, U8, U16
  <2>5. NameOf("setDhaSolution") = "SndSetDhaCtrl"
    BY DEF NameOf, MessageOf
  <2> HIDE DEF words, fields
  <2>6. HandleOemHookRaw(Header(3) \o words, on, beyond) =
          IF ~ on THEN off ELSE Send("SndSetDhaCtrl", fields)
    BY <2>2, <2>3, HeaderDecoded
  <2>7. Decodes("setDhaSolution", a, Send("SndSetDhaCtrl", fields))
    BY <2>4, <2>5, SendDecodes
  <2> QED BY <1>0, <1>2, <2>1, <2>6, <2>7
<1>3. CASE method = "setTwoMicControl"
  <2> DEFINE words == << a[1], a[2] >>
             fields == << U8(a[1]), U8(a[2]) >>
  <2>1. Build("setTwoMicControl", a) = Header(4) \o words
    BY DEF Build, BuildSetTwoMicControl
  <2>2. words \in Seq({a[1], a[2]}) /\ OemRequests[4] = "SET_TWO_MIC_CONTROL"
    BY DEF OemRequests
  <2>3. DecodeAudio("SET_TWO_MIC_CONTROL", words, beyond) = Send("SndSetTwoMicCtrl", fields)
    BY DEF DecodeAudio, HandleSetTwoMicControl
  <2>4. fields \in Seq({U8(a[1]), U8(a[2])}) /\ fields \in Meant("setTwoMicControl", a)
    BY DEF Meant, U8, U16
  <2>5. NameOf("setTwoMicControl") = "SndSetTwoMicCtrl"
    BY DEF NameOf, MessageOf
  <2> HIDE DEF words, fields
  <2>6. HandleOemHookRaw(Header(4) \o words, on, beyond) =
          IF ~ on THEN off ELSE Send("SndSetTwoMicCtrl", fields)
    BY <2>2, <2>3, HeaderDecoded
  <2>7. Decodes("setTwoMicControl", a, Send("SndSetTwoMicCtrl", fields))
    BY <2>4, <2>5, SendDecodes
  <2> QED BY <1>0, <1>3, <2>1, <2>6, <2>7
<1>4. CASE method = "setMute"
  <2> DEFINE words == << a[1] >>
             fields == << IF a[1] # 0 THEN 1 ELSE 0 >>
  <2>1. Build("setMute", a) = Header(6) \o words
    BY DEF Build, BuildSetMute
  <2>2. words \in Seq({a[1]}) /\ OemRequests[6] = "SET_MUTE"
    BY DEF OemRequests
  <2>3. DecodeAudio("SET_MUTE", words, beyond) = Send("SndSetMicMute", fields)
    BY DEF DecodeAudio, HandleSetMute
  <2>4. fields \in Seq({IF a[1] # 0 THEN 1 ELSE 0}) /\ fields \in Meant("setMute", a)
    BY DEF Meant, U8, U16
  <2>5. NameOf("setMute") = "SndSetMicMute"
    BY DEF NameOf, MessageOf
  <2> HIDE DEF words, fields
  <2>6. HandleOemHookRaw(Header(6) \o words, on, beyond) =
          IF ~ on THEN off ELSE Send("SndSetMicMute", fields)
    BY <2>2, <2>3, HeaderDecoded
  <2>7. Decodes("setMute", a, Send("SndSetMicMute", fields))
    BY <2>4, <2>5, SendDecodes
  <2> QED BY <1>0, <1>4, <2>1, <2>6, <2>7
<1>5. CASE method = "setCallRecord"
  <2> DEFINE words == << a[1] >>
             fields == << U8(a[1]) >>
  <2>1. Build("setCallRecord", a) = Header(7) \o words
    BY DEF Build, BuildSetCallRecord
  <2>2. words \in Seq({a[1]}) /\ OemRequests[7] = "SET_CALL_RECORD"
    BY DEF OemRequests
  <2>3. DecodeAudio("SET_CALL_RECORD", words, beyond) = Send("SndSetVoiceRecordingCtrl", fields)
    BY DEF DecodeAudio, HandleSetCallRecord
  <2>4. fields \in Seq({U8(a[1])}) /\ fields \in Meant("setCallRecord", a)
    BY DEF Meant, U8, U16
  <2>5. NameOf("setCallRecord") = "SndSetVoiceRecordingCtrl"
    BY DEF NameOf, MessageOf
  <2> HIDE DEF words, fields
  <2>6. HandleOemHookRaw(Header(7) \o words, on, beyond) =
          IF ~ on THEN off ELSE Send("SndSetVoiceRecordingCtrl", fields)
    BY <2>2, <2>3, HeaderDecoded
  <2>7. Decodes("setCallRecord", a, Send("SndSetVoiceRecordingCtrl", fields))
    BY <2>4, <2>5, SendDecodes
  <2> QED BY <1>0, <1>5, <2>1, <2>6, <2>7
<1>6. CASE method = "setCallClockSync"
  <2> DEFINE words == << a[1] >>
             fields == << U8(a[1]) >>
  <2>1. Build("setCallClockSync", a) = Header(8) \o words
    BY DEF Build, BuildSetCallClockSync
  <2>2. words \in Seq({a[1]}) /\ OemRequests[8] = "SET_CALL_CLOCK_SYNC"
    BY DEF OemRequests
  <2>3. DecodeAudio("SET_CALL_CLOCK_SYNC", words, beyond) = Send("SndExecClockCtrl", fields)
    BY DEF DecodeAudio, HandleSetCallClockSync
  <2>4. fields \in Seq({U8(a[1])}) /\ fields \in Meant("setCallClockSync", a)
    BY DEF Meant, U8, U16
  <2>5. NameOf("setCallClockSync") = "SndExecClockCtrl"
    BY DEF NameOf, MessageOf
  <2> HIDE DEF words, fields
  <2>6. HandleOemHookRaw(Header(8) \o words, on, beyond) =
          IF ~ on THEN off ELSE Send("SndExecClockCtrl", fields)
    BY <2>2, <2>3, HeaderDecoded
  <2>7. Decodes("setCallClockSync", a, Send("SndExecClockCtrl", fields))
    BY <2>4, <2>5, SendDecodes
  <2> QED BY <1>0, <1>6, <2>1, <2>6, <2>7
<1>7. CASE method = "setVideoCallClockSync"
  <2> DEFINE words == << a[1] >>
             fields == << U8(a[1]) >>
  <2>1. Build("setVideoCallClockSync", a) = Header(9) \o words
    BY DEF Build, BuildSetVideoCallClockSync
  <2>2. words \in Seq({a[1]}) /\ OemRequests[9] = "SET_VIDEO_CALL_CLOCK_SYNC"
    BY DEF OemRequests
  <2>3. DecodeAudio("SET_VIDEO_CALL_CLOCK_SYNC", words, beyond) = Send("SndSetVideoCallCtrl", fields)
    BY DEF DecodeAudio, HandleSetVideoCallClockSync
  <2>4. fields \in Seq({U8(a[1])}) /\ fields \in Meant("setVideoCallClockSync", a)
    BY DEF Meant, U8, U16
  <2>5. NameOf("setVideoCallClockSync") = "SndSetVideoCallCtrl"
    BY DEF NameOf, MessageOf
  <2> HIDE DEF words, fields
  <2>6. HandleOemHookRaw(Header(9) \o words, on, beyond) =
          IF ~ on THEN off ELSE Send("SndSetVideoCallCtrl", fields)
    BY <2>2, <2>3, HeaderDecoded
  <2>7. Decodes("setVideoCallClockSync", a, Send("SndSetVideoCallCtrl", fields))
    BY <2>4, <2>5, SendDecodes
  <2> QED BY <1>0, <1>7, <2>1, <2>6, <2>7
<1>8. CASE method = "enterServiceMode"
  <2> DEFINE words == << a[1], a[2] >>
             fields == << U8(a[1]), IF a[1] = 1 THEN U16(a[2] + 4096) ELSE 0 >>
  <2>1. Build("enterServiceMode", a) = Header(13) \o words
    BY DEF Build, BuildEnterServiceMode
  <2>2. words \in Seq({a[1], a[2]}) /\ OemRequests[13] = "ENTER_SERVICE_MODE"
    BY DEF OemRequests
  <2>3. DecodeOther("ENTER_SERVICE_MODE", words) = Send("SvcEnterServiceMode", fields)
    BY DEF DecodeOther, HandleEnterServiceMode
  <2>4. fields \in Seq({U8(a[1]), IF a[1] = 1 THEN U16(a[2] + 4096) ELSE 0}) /\ fields \in Meant("enterServiceMode", a)
    BY DEF Meant, U8, U16
  <2>5. NameOf("enterServiceMode") = "SvcEnterServiceMode"
    BY DEF NameOf, MessageOf
  <2> HIDE DEF words, fields
  <2>6. HandleOemHookRaw(Header(13) \o words, on, beyond) =
          IF ~ on THEN off ELSE Send("SvcEnterServiceMode", fields)
    BY <2>2, <2>3, HeaderDecoded
  <2>7. Decodes("enterServiceMode", a, Send("SvcEnterServiceMode", fields))
    BY <2>4, <2>5, SendDecodes
  <2> QED BY <1>0, <1>8, <2>1, <2>6, <2>7
<1>9. CASE method = "exitServiceMode"
  <2> DEFINE words == << a[1] >>
             fields == << U8(a[1]) >>
  <2>1. Build("exitServiceMode", a) = Header(14) \o words
    BY DEF Build, BuildExitServiceMode
  <2>2. words \in Seq({a[1]}) /\ OemRequests[14] = "EXIT_SERVICE_MODE"
    BY DEF OemRequests
  <2>3. DecodeOther("EXIT_SERVICE_MODE", words) = Send("SvcExitServiceMode", fields)
    BY DEF DecodeOther, HandleExitServiceMode
  <2>4. fields \in Seq({U8(a[1])}) /\ fields \in Meant("exitServiceMode", a)
    BY DEF Meant, U8, U16
  <2>5. NameOf("exitServiceMode") = "SvcExitServiceMode"
    BY DEF NameOf, MessageOf
  <2> HIDE DEF words, fields
  <2>6. HandleOemHookRaw(Header(14) \o words, on, beyond) =
          IF ~ on THEN off ELSE Send("SvcExitServiceMode", fields)
    BY <2>2, <2>3, HeaderDecoded
  <2>7. Decodes("exitServiceMode", a, Send("SvcExitServiceMode", fields))
    BY <2>4, <2>5, SendDecodes
  <2> QED BY <1>0, <1>9, <2>1, <2>6, <2>7
<1>10. CASE method = "sendServiceKeyCode"
  <2> DEFINE words == << a[1] >>
             fields == << U8(a[1]) >>
  <2>1. Build("sendServiceKeyCode", a) = Header(15) \o words
    BY DEF Build, BuildSendServiceKeyCode
  <2>2. words \in Seq({a[1]}) /\ OemRequests[15] = "SEND_SERVICE_KEY_CODE"
    BY DEF OemRequests
  <2>3. DecodeOther("SEND_SERVICE_KEY_CODE", words) = Send("SvcProcessKeyCode", fields)
    BY DEF DecodeOther, HandleSendServiceKeyCode
  <2>4. fields \in Seq({U8(a[1])}) /\ fields \in Meant("sendServiceKeyCode", a)
    BY DEF Meant, U8, U16
  <2>5. NameOf("sendServiceKeyCode") = "SvcProcessKeyCode"
    BY DEF NameOf, MessageOf
  <2> HIDE DEF words, fields
  <2>6. HandleOemHookRaw(Header(15) \o words, on, beyond) =
          IF ~ on THEN off ELSE Send("SvcProcessKeyCode", fields)
    BY <2>2, <2>3, HeaderDecoded
  <2>7. Decodes("sendServiceKeyCode", a, Send("SvcProcessKeyCode", fields))
    BY <2>4, <2>5, SendDecodes
  <2> QED BY <1>0, <1>10, <2>1, <2>6, <2>7
<1> QED BY <1>1, <1>2, <1>3, <1>4, <1>5, <1>6, <1>7, <1>8, <1>9, <1>10

LEMMA AudioPathDecoded ==
    ASSUME NEW a, a[1] \in Int, NEW on, NEW beyond
    PROVE  Decodes("setCallAudioPath", a,
                   HandleOemHookRaw(Build("setCallAudioPath", a), on, beyond))
<1> DEFINE off == Complete("RADIO_NOT_AVAILABLE")
           fails == Complete("GENERIC_FAILURE")
           words == << a[1], a[2] >>
           fields == << PathMap[a[1] + 1] >>
           bad == a[1] < 0 \/ a[1] >= Len(PathMap)
<1>0. /\ Decodes("setCallAudioPath", a, off)
      /\ Decodes("setCallAudioPath", a, fails)
  BY FailureDecodes
<1>1. Build("setCallAudioPath", a) = Header(10) \o words
  BY DEF Build, BuildSetCallAudioPath
<1>2. words \in Seq({a[1], a[2]}) /\ OemRequests[10] = "SET_CALL_AUDIO_PATH"
  BY DEF OemRequests
<1>3. DecodeAudio("SET_CALL_AUDIO_PATH", words, beyond) =
        IF bad THEN fails ELSE Send("SndSetAudioPath", fields)
  BY DEF DecodeAudio, HandleSetCallAudioPath
<1>4. fields \in Seq({PathMap[a[1] + 1]})
  OBVIOUS
<1>5. ~ bad => fields \in Meant("setCallAudioPath", a)
  <2>1. ~ bad => a[1] + 1 \in 1 .. 8
    BY DEF PathMap
  <2>2. Meant("setCallAudioPath", a) = {<< PathMap[p] >> : p \in {a[1] + 1} \cap (1 .. 8)}
    BY DEF Meant
  <2> QED BY <2>1, <2>2
<1>6. NameOf("setCallAudioPath") = "SndSetAudioPath"
  BY DEF NameOf, MessageOf
<1> HIDE DEF words, fields, bad
<1>7. HandleOemHookRaw(Header(10) \o words, on, beyond) =
        IF ~ on THEN off ELSE IF bad THEN fails ELSE Send("SndSetAudioPath", fields)
  BY <1>2, <1>3, HeaderDecoded
<1>8. ~ bad => Decodes("setCallAudioPath", a, Send("SndSetAudioPath", fields))
  BY <1>4, <1>5, <1>6, SendDecodes
<1> QED BY <1>0, <1>1, <1>7, <1>8

LEMMA VolumeDecoded ==
    ASSUME NEW a, a[1] \in Int, NEW on, NEW beyond
    PROVE  Decodes("setCallVolume", a, HandleOemHookRaw(Build("setCallVolume", a), on, beyond))
<1> DEFINE off == Complete("RADIO_NOT_AVAILABLE")
           fails == Complete("GENERIC_FAILURE")
           words == << a[1], a[2] >>
           code == IF a[1] < Len(DeviceMap) THEN DeviceMap[a[1] + 1] ELSE beyond
           fields == << code, U8(a[2]) >>
           bad == a[1] < 0 \/ a[1] > Len(DeviceMap)
<1>0. /\ Decodes("setCallVolume", a, off)
      /\ Decodes("setCallVolume", a, fails)
  BY FailureDecodes
<1>1. Build("setCallVolume", a) = Header(11) \o words
  BY DEF Build, BuildSetCallVolume
<1>2. words \in Seq({a[1], a[2]}) /\ OemRequests[11] = "SET_CALL_VOLUME"
  BY DEF OemRequests
<1>3. DecodeAudio("SET_CALL_VOLUME", words, beyond) =
        IF bad THEN fails ELSE Send("SndSetVolumeCtrl", fields)
  BY DEF DecodeAudio, HandleSetCallVolume
<1>4. fields \in Seq({code, U8(a[2])})
  OBVIOUS
<1>5. ~ bad /\ ~ PastTable("setCallVolume", a) => fields \in Meant("setCallVolume", a)
  <2>1. ~ bad /\ ~ PastTable("setCallVolume", a) =>
          a[1] + 1 \in 1 .. 4 /\ a[1] < Len(DeviceMap)
    BY DEF DeviceMap, PastTable
  <2>2. Meant("setCallVolume", a) =
          {<< DeviceMap[d], a[2] % 256 >> : d \in {a[1] + 1} \cap (1 .. 4)}
    BY DEF Meant
  <2> QED BY <2>1, <2>2 DEF U8
<1>6. NameOf("setCallVolume") = "SndSetVolumeCtrl"
  BY DEF NameOf, MessageOf
<1> HIDE DEF words, fields, bad
<1>7. HandleOemHookRaw(Header(11) \o words, on, beyond) =
        IF ~ on THEN off ELSE IF bad THEN fails ELSE Send("SndSetVolumeCtrl", fields)
  BY <1>2, <1>3, HeaderDecoded
<1>8. ~ bad => Decodes("setCallVolume", a, Send("SndSetVolumeCtrl", fields))
  BY <1>4, <1>5, <1>6, SendDecodes
<1> QED BY <1>0, <1>1, <1>7, <1>8

LEMMA GetMuteDecoded ==
    ASSUME NEW a, NEW on, NEW beyond
    PROVE  Decodes("getMute", a, HandleOemHookRaw(Build("getMute", a), on, beyond))
<1> DEFINE off == Complete("RADIO_NOT_AVAILABLE")
           words == << >>
<1>0. Decodes("getMute", a, off)
  BY FailureDecodes
<1>1. Build("getMute", a) = Header(5) \o words
  <2>1. Header(5) \in Seq(Int)
    BY DEF Header, SignatureLow, SignatureHigh
  <2>2. Header(5) = Header(5) \o << >>
    BY <2>1, ConcatEmptySeq
  <2> QED BY <2>2 DEF Build, BuildGetMute
<1>2. words \in Seq({}) /\ OemRequests[5] = "GET_MUTE"
  BY DEF OemRequests
<1>3. DecodeAudio("GET_MUTE", words, beyond) = Send("SndGetMicMute", << >>)
  BY DEF DecodeAudio, HandleGetMute
<1>4. << >> \in Seq({}) /\ "getMute" \notin Setters /\ NameOf("getMute") = "SndGetMicMute"
  BY DEF Setters, NameOf
<1>5. HandleOemHookRaw(Header(5) \o words, on, beyond) =
        IF ~ on THEN off ELSE Send("SndGetMicMute", << >>)
  <2> HIDE DEF words
  <2> QED BY <1>2, <1>3, HeaderDecoded
<1>6. Decodes("getMute", a, Send("SndGetMicMute", << >>))
  BY <1>4, SendDecodes
<1> QED BY <1>0, <1>1, <1>5, <1>6

LEMMA RawRequestDecoded ==
    ASSUME NEW a, NEW on, NEW beyond
    PROVE  Decodes("samsungOemRequest", a,
                   HandleOemHookRaw(Build("samsungOemRequest", a), on, beyond))
<1> DEFINE off == Complete("RADIO_NOT_AVAILABLE")
           fails == Complete("GENERIC_FAILURE")
           words == << a[1] >>
<1>0. Decodes("samsungOemRequest", a, off) /\ Decodes("samsungOemRequest", a, fails)
  BY FailureDecodes
<1>1. Build("samsungOemRequest", a) = Header(12) \o words
  BY DEF Build, BuildSamsungOemRequest
<1>2. words \in Seq({a[1]}) /\ OemRequests[12] = "SAMSUNG_OEM_REQUEST"
  BY DEF OemRequests
<1>3. DecodeOther("SAMSUNG_OEM_REQUEST", words) = fails
  BY DEF DecodeOther, HandleSamsungOemRequest
<1>4. HandleOemHookRaw(Header(12) \o words, on, beyond) = IF ~ on THEN off ELSE fails
  <2> HIDE DEF words
  <2> QED BY <1>2, <1>3, HeaderDecoded
<1> QED BY <1>0, <1>1, <1>4

\* The integers that a method needs.
Suits(method, a) == method # "getMute" => a[1] \in Int

\* Every call's request is refused, or becomes the message that it means.
LEMMA RequestDecoded ==
    ASSUME NEW method \in Methods, NEW a, Suits(method, a), NEW on, NEW beyond
    PROVE  Decodes(method, a, HandleOemHookRaw(Build(method, a), on, beyond))
<1>1. CASE method = "setCallAudioPath"
  BY <1>1, AudioPathDecoded DEF Suits
<1>2. CASE method = "setCallVolume"
  BY <1>2, VolumeDecoded DEF Suits
<1>3. CASE method = "getMute"
  BY <1>3, GetMuteDecoded
<1>4. CASE method = "samsungOemRequest"
  BY <1>4, RawRequestDecoded
<1>5. CASE method \in {"setLoopbackTest", "setDhaSolution", "setTwoMicControl", "setMute",
                       "setCallRecord", "setCallClockSync", "setVideoCallClockSync",
                       "enterServiceMode", "exitServiceMode", "sendServiceKeyCode"}
  BY <1>5, SettingDecoded
<1> QED BY <1>1, <1>2, <1>3, <1>4, <1>5 DEF Methods, AudioMethods, ServiceModeMethods

\* The service's own request is never refused and never a message.
LEMMA AttachDecoded ==
    ASSUME NEW on, NEW beyond
    PROVE  HandleOemHookRaw(BuildAttach(TRUE), on, beyond).status = "SUCCESS"
<1> DEFINE words == << 1 >>
<1>1. BuildAttach(TRUE) = Header(1) \o words
  BY DEF BuildAttach
<1>2. words \in Seq({1}) /\ OemRequests[1] = "ATTACH_SERVICE"
  BY DEF OemRequests
<1>3. DecodeOther("ATTACH_SERVICE", words).status = "SUCCESS"
  BY DEF DecodeOther, Complete
<1>4. HandleOemHookRaw(Header(1) \o words, on, beyond) = DecodeOther("ATTACH_SERVICE", words)
  <2> HIDE DEF words
  <2> QED BY <1>2, HeaderDecoded
<1> QED BY <1>1, <1>3, <1>4

-----------------------------------------------------------------------------
(* The invariant.                                                          *)

Attachment == BuildAttach(TRUE)

ParcelsOf(method) == {Build(method, a) : a \in Seq(Int)}

Parcels == (UNION {ParcelsOf(method) : method \in Methods}) \cup {Attachment}

Requests == [from : Nat \cup {Null}, method : Methods \cup {"attach"}, parcel : Parcels]

PathTypes ==
    /\ call = Null \/ ( /\ call \in ClientCalls /\ call.to \in 1 .. started
                        /\ Suits(call.method, call.arguments) )
    /\ started \in Nat
    /\ service = Null \/ service \in 1 .. started
    /\ interface = Null \/ interface \in 1 .. started
    /\ callback \in Callbacks \cup {Null}
    /\ rild \in Seq(Requests)

\* A request of the client, through a phone process that has run.
Sanctioned(request) ==
    /\ request.from \in 1 .. started
    /\ request.method \in Methods /\ Permitted(uid, request.method)
    /\ \E a : Suits(request.method, a) /\ request.parcel = Build(request.method, a)

\* A request by which the service attaches itself.
Attaches(request) == request.from = Null /\ request.parcel = BuildAttach(TRUE)

\* Whatever is with rild is one or the other; what is at the modem is the message
\* of a request.
RequestInv ==
    /\ \A i \in 1 .. Len(rild) : Attaches(rild[i]) \/ Sanctioned(rild[i])
    /\ executing # Null =>
         /\ executing.request.from \in 1 .. started
         /\ executing.request.method \in Methods \ {"samsungOemRequest"}
         /\ Permitted(uid, executing.request.method)
         /\ executing.message[1] = NameOf(executing.request.method)

\* The call waits for its result, and its service lives.
Waiting == call # Null /\ call.stage = "waiting" /\ call.to = service

Foreign(request) == request.from # service

ForeignAtModem == executing # Null => Foreign(executing.request)

AllForeign(s) == \A i \in 1 .. Len(s) : Foreign(s[i])

\* Nothing but attachments is left.
Quiet(s) == \A i \in 1 .. Len(s) : s[i].from = Null

OwnExecuting ==
    /\ executing.request.from = service
    /\ Carries(call.method, call.arguments, executing.message)
    /\ Quiet(rild)

OwnQueued ==
    \E k \in 1 .. Len(rild) :
        /\ rild[k].from = service
        /\ rild[k].parcel = Build(call.method, call.arguments)
        /\ \A i \in 1 .. k - 1 : Foreign(rild[i])
        /\ \A i \in k + 1 .. Len(rild) : rild[i].from = Null

\* The request of a waiting call is the only one of its service, and the last
\* one but for attachments.
OwnInv ==
    /\ Waiting => OwnExecuting \/ (ForeignAtModem /\ OwnQueued)
    /\ ~ Waiting /\ service # Null => ForeignAtModem /\ AllForeign(rild)

\* A setting is in force, and nothing that could change it is under way.
InForce(method, arguments) ==
    executing = Null /\ Quiet(rild) /\ Carries(method, arguments, modem.message)

DoneInv ==
    /\ call # Null /\ call.stage = "replied" /\ call.method \in Setters /\ ProxyResult(call.reply)
         => InForce(call.method, call.arguments)
    /\ call = Null /\ last.method \in Setters /\ last.status = "SUCCESS"
         => InForce(last.method, last.arguments)

SettingInv == PathTypes /\ RequestInv /\ OwnInv /\ DoneInv

-----------------------------------------------------------------------------
(* Calls.                                                                  *)

LEMMA BuildsParcel ==
    ASSUME NEW method \in Methods, NEW a \in Seq(Int)
    PROVE  Build(method, a) \in Parcels
<1>1. Build(method, a) \in ParcelsOf(method)
  BY DEF ParcelsOf
<1> QED BY <1>1 DEF Parcels

LEMMA RepliedFields ==
    ASSUME call \in ClientCalls, NEW reply \in Seq(Int)
    PROVE  /\ Replied(reply) \in ClientCalls
           /\ Replied(reply).method = call.method /\ Replied(reply).arguments = call.arguments
           /\ Replied(reply).to = call.to
           /\ Replied(reply).stage = "replied" /\ Replied(reply).reply = reply
BY DEF Replied, ClientCalls

LEMMA Replies ==
    /\ \A result \in BOOLEAN : StubReply(result) \in Seq(Int)
    /\ ~ ProxyResult(StubReply(FALSE))
    /\ << >> \in Seq(Int) /\ ~ ProxyResult(<< >>)
    /\ \A result, muted \in BOOLEAN : StubMuteReply(result, muted) \in Seq(Int)
<1>1. \A result \in BOOLEAN : StubReply(result) \in Seq(Int)
  BY DEF StubReply
<1>2. ~ ProxyResult(StubReply(FALSE))
  BY DEF StubReply, ProxyResult, ReadInt32
<1>3. << >> \in Seq(Int) /\ ~ ProxyResult(<< >>)
  BY DEF ProxyResult, ReadInt32
<1>4. ASSUME NEW result \in BOOLEAN, NEW muted \in BOOLEAN
      PROVE  StubMuteReply(result, muted) \in Seq(Int)
  <2>1. << 1, IF muted THEN 1 ELSE 0 >> \in Seq(Int)
    OBVIOUS
  <2> QED BY <1>1, <2>1, ConcatProperties DEF StubMuteReply
<1> QED BY <1>1, <1>2, <1>3, <1>4

LEMMA SetterNames ==
    ASSUME NEW method \in Setters
    PROVE  /\ method \in Methods /\ NameOf(method) = MessageOf(method)
           /\ NameOf(method) # "SndGetMicMute"
           /\ method # "samsungOemRequest" /\ method # "getMute" /\ method # "connection"
<1>1. /\ method \in Methods /\ method # "getMute"
      /\ method # "samsungOemRequest" /\ method # "connection"
  BY DEF Setters, AudioMethods, ServiceModeMethods, Methods
<1>2. NameOf(method) = MessageOf(method)
  BY <1>1 DEF NameOf
<1>3. MessageOf(method) # "SndGetMicMute"
  BY <1>1 DEF MessageOf, Setters, AudioMethods, ServiceModeMethods
<1> QED BY <1>1, <1>2, <1>3

\* Steps that leave the requests and the modem alone.
LEMMA PathKept ==
    ASSUME SettingInv, UNCHANGED << phoneVars, rilVars, modem, uid >>
    PROVE  /\ RequestInv'
           /\ AllForeign(rild)' <=> AllForeign(rild)
           /\ ForeignAtModem' <=> ForeignAtModem
           /\ \A m, a : InForce(m, a)' <=> InForce(m, a)
           /\ started' \in Nat /\ (service' = Null \/ service' \in 1 .. started')
           /\ rild' \in Seq(Requests)
<1>1. /\ service' = service /\ started' = started /\ rild' = rild /\ executing' = executing
      /\ modem' = modem /\ uid' = uid
  BY DEF phoneVars, rilVars
<1>2. RequestInv'
  BY <1>1 DEF SettingInv, RequestInv, Attaches, Sanctioned
<1>3. (AllForeign(rild)' <=> AllForeign(rild)) /\ (ForeignAtModem' <=> ForeignAtModem)
  BY <1>1 DEF AllForeign, ForeignAtModem, Foreign
<1>4. ASSUME NEW m, NEW a
      PROVE InForce(m, a)' <=> InForce(m, a)
  BY <1>1 DEF InForce, Quiet
<1>5. started' \in Nat /\ (service' = Null \/ service' \in 1 .. started')
  BY <1>1 DEF SettingInv, PathTypes
<1>6. rild' \in Seq(Requests)
  BY <1>1 DEF SettingInv, PathTypes
<1> QED BY <1>2, <1>3, <1>4, <1>5, <1>6

\* A step of the client that is neither in nor out of a call, or that gives up.
LEMMA IdleStep ==
    ASSUME SettingInv, call = Null, call' = Null,
           UNCHANGED << uid, phoneVars, rilVars, modem >>,
           interface' = Null \/ interface' \in 1 .. started, callback' \in Callbacks \cup {Null},
           last'.method \notin Setters \/ last'.status # "SUCCESS"
    PROVE  SettingInv'
<1>1. /\ RequestInv'
      /\ AllForeign(rild)' <=> AllForeign(rild)
      /\ ForeignAtModem' <=> ForeignAtModem
      /\ started' \in Nat /\ (service' = Null \/ service' \in 1 .. started')
      /\ rild' \in Seq(Requests)
  BY PathKept
<1>2. service' = service /\ started' = started
  BY DEF phoneVars
<1>3. PathTypes'
  BY <1>1, <1>2 DEF PathTypes
<1>4. OwnInv'
  BY <1>1, <1>2 DEF SettingInv, OwnInv, Waiting
<1>5. DoneInv'
  BY DEF DoneInv
<1> QED BY <1>1, <1>3, <1>4, <1>5 DEF SettingInv

LEMMA TransactStep ==
    ASSUME SettingInv, call = Null, NEW method \in Methods, NEW a \in Seq(Int), Suits(method, a),
           NEW to \in 1 .. started, NEW cb \in Callbacks \cup {Null}, Transact(method, a, to, cb)
    PROVE  SettingInv'
<1>1. /\ RequestInv'
      /\ AllForeign(rild)' <=> AllForeign(rild)
      /\ ForeignAtModem' <=> ForeignAtModem
      /\ started' \in Nat /\ (service' = Null \/ service' \in 1 .. started')
      /\ rild' \in Seq(Requests)
  BY PathKept DEF Transact
<1>2. /\ service' = service /\ started' = started
      /\ interface' = interface /\ callback' = callback
      /\ to \in Nat
  BY DEF Transact, phoneVars, SettingInv, PathTypes
<1>3. /\ call' \in ClientCalls /\ call'.method = method /\ call'.arguments = a
      /\ call'.stage = "sent" /\ call'.to = to
  BY <1>2, EmptySeq DEF Transact, ClientCalls
<1>4. PathTypes'
  BY <1>1, <1>2, <1>3 DEF PathTypes, SettingInv
<1>5. OwnInv'
  BY <1>1, <1>2, <1>3 DEF SettingInv, OwnInv, Waiting
<1>6. call' # Null
  BY <1>3, SecrilAssumption
<1>7. DoneInv'
  BY <1>3, <1>6 DEF DoneInv
<1> QED BY <1>1, <1>4, <1>5, <1>7 DEF SettingInv

LEMMA ConnectionStep ==
    ASSUME SettingInv,
           \/ Connect \/ Disconnect \/ CloseClient \/ IsConnected
           \/ \E cb \in Callbacks \cup {Null} : RegisterRequestCompleteHandler(cb)
    PROVE  SettingInv'
<1>1. PICK status : Returned(status)
  BY DEF Connect, Disconnect, CloseClient, IsConnected, RegisterRequestCompleteHandler
<1>2. call = Null /\ call' = Null
  BY <1>1 DEF Connect, Disconnect, CloseClient, IsConnected, RegisterRequestCompleteHandler,
              Idle, Returned
<1>3. UNCHANGED << uid, phoneVars, rilVars, modem >>
  BY <1>1 DEF Returned
<1>4. (service = Null \/ service \in 1 .. started) /\ (interface = Null \/ interface \in 1 .. started)
  BY DEF SettingInv, PathTypes
<1>5. interface' = Null \/ interface' \in 1 .. started
  BY <1>4 DEF Connect, Disconnect, CloseClient, IsConnected, RegisterRequestCompleteHandler
<1>6. callback' \in Callbacks \cup {Null}
  BY DEF SettingInv, PathTypes, Connect, Disconnect, CloseClient, IsConnected,
         RegisterRequestCompleteHandler
<1>7. last'.method = "connection"
  BY <1>1 DEF Returned, Outcome
<1>8. "connection" \notin Setters
  BY SetterNames
<1> QED BY <1>2, <1>3, <1>5, <1>6, <1>7, <1>8, IdleStep

LEMMA RefusedStep ==
    ASSUME SettingInv, call = Null, NEW method, Refused(method)
    PROVE  SettingInv'
<1>1. /\ call' = Null /\ UNCHANGED << uid, phoneVars, rilVars, modem >>
      /\ last'.status # "SUCCESS"
  BY DEF Refused, Outcome
<1>2. /\ interface' = Null \/ interface' \in 1 .. started
      /\ callback' \in Callbacks \cup {Null}
  BY DEF Refused, SettingInv, PathTypes
<1> QED BY <1>1, <1>2, IdleStep

LEMMA SetterStep ==
    ASSUME SettingInv, NEW method \in Setters, NEW a \in Seq(Int), a[1] \in Int, Setter(method, a)
    PROVE  SettingInv'
<1>1. call = Null /\ (interface = Null \/ interface \in 1 .. started)
  BY DEF Setter, Idle, SettingInv, PathTypes
<1>2. CASE interface = Null
  BY <1>1, <1>2, RefusedStep DEF Setter
<1>3. CASE interface # Null
  <2>1. Transaction(method, a) \in Seq(Int) /\ Transaction(method, a)[1] \in Int
    BY DEF Transaction
  <2>2. method \in Methods /\ Suits(method, Transaction(method, a))
    BY <2>1, SetterNames DEF Suits
  <2>3. Transact(method, Transaction(method, a), interface, Null)
    BY <1>3 DEF Setter
  <2> QED BY <1>1, <1>3, <2>1, <2>2, <2>3, TransactStep
<1> QED BY <1>2, <1>3

LEMMA CallStep ==
    ASSUME SettingInv,
           \/ \E a \in Values :
                \/ SetLoopbackTest(a, Other(a)) \/ SetDhaSolution(a, Other(a), Extra)
                \/ SetTwoMicControl(a, Other(a))
                \/ SetCallAudioPath(a, Other(a)) \/ SetCallVolume(a, Other(a))
                \/ SetMute(a) \/ SetCallRecord(a) \/ SetCallClockSync(a)
                \/ SetVideoCallClockSync(a)
    PROVE  SettingInv'
<1>1. PICK a \in Values :
         \/ SetLoopbackTest(a, Other(a)) \/ SetDhaSolution(a, Other(a), Extra)
         \/ SetTwoMicControl(a, Other(a))
         \/ SetCallAudioPath(a, Other(a)) \/ SetCallVolume(a, Other(a))
         \/ SetMute(a) \/ SetCallRecord(a) \/ SetCallClockSync(a)
         \/ SetVideoCallClockSync(a)
  OBVIOUS
<1>2. a \in Int /\ Other(a) \in Int /\ Extra \in Int
  BY SecrilAssumption DEF Other, Extra
<1> DEFINE one == << a >>
           two == << a, Other(a) >>
           three == << a, Other(a), Extra >>
<1>3. /\ one \in Seq(Int) /\ one[1] \in Int
      /\ two \in Seq(Int) /\ two[1] \in Int
      /\ three \in Seq(Int) /\ three[1] \in Int
  BY <1>2
<1>4. \E method \in Setters : Setter(method, one) \/ Setter(method, two) \/ Setter(method, three)
  <2>1. {"setLoopbackTest", "setDhaSolution", "setTwoMicControl", "setMute", "setCallRecord",
         "setCallClockSync", "setVideoCallClockSync", "setCallAudioPath", "setCallVolume"}
          \subseteq Setters
    BY DEF Setters, AudioMethods
  <2> HIDE DEF one, two, three
  <2>2. /\ SetLoopbackTest(a, Other(a)) => Setter("setLoopbackTest", two)
        /\ SetDhaSolution(a, Other(a), Extra) => Setter("setDhaSolution", three)
        /\ SetTwoMicControl(a, Other(a)) => Setter("setTwoMicControl", two)
        /\ SetCallAudioPath(a, Other(a)) => Setter("setCallAudioPath", two)
        /\ SetCallVolume(a, Other(a)) => Setter("setCallVolume", two)
        /\ SetMute(a) => Setter("setMute", one)
        /\ SetCallRecord(a) => Setter("setCallRecord", one)
        /\ SetCallClockSync(a) => Setter("setCallClockSync", one)
        /\ SetVideoCallClockSync(a) => Setter("setVideoCallClockSync", one)
    BY DEF SetLoopbackTest, SetDhaSolution, SetTwoMicControl, SetCallAudioPath, SetCallVolume,
           SetMute, SetCallRecord, SetCallClockSync, SetVideoCallClockSync, one, two, three
  <2> QED BY <1>1, <2>1, <2>2
<1> HIDE DEF one, two, three
<1> QED BY <1>3, <1>4, SetterStep

LEMMA GetMuteStep ==
    ASSUME SettingInv, NEW cb \in Callbacks, GetMute(cb)
    PROVE  SettingInv'
<1>1. call = Null /\ (interface = Null \/ interface \in 1 .. started)
  BY DEF GetMute, Idle, SettingInv, PathTypes
<1>2. CASE interface = Null
  BY <1>1, <1>2, RefusedStep DEF GetMute
<1>3. CASE interface # Null
  <2>1. "getMute" \in Methods /\ << >> \in Seq(Int) /\ Suits("getMute", << >>)
    BY DEF Methods, AudioMethods, Suits
  <2> QED BY <1>1, <1>3, <2>1, TransactStep DEF GetMute
<1> QED BY <1>2, <1>3

LEMMA RawRequestStep ==
    ASSUME SettingInv, InvokeOemRequestHookRaw
    PROVE  SettingInv'
<1>1. /\ call = Null /\ (interface = Null \/ interface \in 1 .. started)
      /\ callback \in Callbacks \cup {Null}
  BY DEF InvokeOemRequestHookRaw, Idle, SettingInv, PathTypes
<1>2. CASE interface = Null
  BY <1>1, <1>2, RefusedStep DEF InvokeOemRequestHookRaw
<1>3. CASE interface # Null /\ callback = Null
  <2>1. /\ call' = Null /\ UNCHANGED << uid, phoneVars, rilVars, modem >>
        /\ interface' = interface /\ callback' = callback
        /\ last' = Outcome("samsungOemRequest", << >>, "UNKNOWN")
    BY <1>1, <1>3 DEF InvokeOemRequestHookRaw
  <2>2. last'.status # "SUCCESS"
    BY <2>1 DEF Outcome
  <2> QED BY <1>1, <2>1, <2>2, IdleStep
<1>4. CASE interface # Null /\ callback # Null
  <2>1. "samsungOemRequest" \in Methods /\ << 0 >> \in Seq(Int) /\ Suits("samsungOemRequest", << 0 >>)
    BY DEF Methods, Suits
  <2>2. Transact("samsungOemRequest", << 0 >>, interface, callback)
    BY <1>4 DEF InvokeOemRequestHookRaw
  <2> QED BY <1>1, <1>4, <2>1, <2>2, TransactStep
<1> QED BY <1>2, <1>3, <1>4

LEMMA ServiceModeStep ==
    ASSUME SettingInv, NEW a \in Values,
           \/ ServiceModeCall("enterServiceMode", << a, Other(a) >>)
           \/ ServiceModeCall("exitServiceMode", << a >>)
           \/ ServiceModeCall("sendServiceKeyCode", << a >>)
    PROVE  SettingInv'
<1>1. a \in Int /\ Other(a) \in Int
  BY SecrilAssumption DEF Other
<1>2. PICK method \in ServiceModeMethods, b \in {<< a >>, << a, Other(a) >>} :
         ServiceModeCall(method, b)
  BY DEF ServiceModeMethods
<1>3. b \in Seq(Int) /\ b[1] \in Int
  <2>1. CASE b = << a >>
    BY <1>1, <2>1
  <2>2. CASE b = << a, Other(a) >>
    BY <1>1, <2>2
  <2> QED BY <2>1, <2>2
<1>4. method \in Methods /\ Suits(method, b)
  BY <1>3 DEF Methods, Suits
<1>5. call = Null /\ service \in 1 .. started /\ Null \in Callbacks \cup {Null}
  BY <1>2 DEF ServiceModeCall, Idle, SettingInv, PathTypes
<1> QED BY <1>2, <1>3, <1>4, <1>5, TransactStep DEF ServiceModeCall

-----------------------------------------------------------------------------
(* The call's return.                                                      *)

LEMMA ReturnStep ==
    ASSUME SettingInv, Return
    PROVE  SettingInv'
<1>1. /\ RequestInv'
      /\ AllForeign(rild)' <=> AllForeign(rild)
      /\ ForeignAtModem' <=> ForeignAtModem
      /\ \A m, a : InForce(m, a)' <=> InForce(m, a)
      /\ started' \in Nat /\ (service' = Null \/ service' \in 1 .. started')
      /\ rild' \in Seq(Requests)
  BY PathKept DEF Return
<1>2. /\ service' = service /\ started' = started /\ call' = Null
      /\ interface' = interface /\ callback' = callback
      /\ call # Null /\ call.stage = "replied"
  BY DEF Return, phoneVars
<1>3. PathTypes'
  BY <1>1, <1>2 DEF PathTypes, SettingInv
<1>4. OwnInv'
  BY <1>1, <1>2 DEF SettingInv, OwnInv, Waiting
<1>5. ASSUME last'.method \in Setters, last'.status = "SUCCESS"
      PROVE  InForce(last.method, last.arguments)'
  <2>1. Succeeded
    BY <1>5 DEF Return, Outcome
  <2>2. last'.method = call.method /\ last'.arguments = call.arguments
    <3>1. last' = [Outcome(call.method, call.arguments, "SUCCESS")
                     EXCEPT !.handler = call.handler, !.value = TRUE]
      BY <2>1 DEF Return
    <3> QED BY <3>1 DEF Outcome
  <2>3. ProxyResult(call.reply)
    BY <1>5, <2>1, <2>2, SetterNames DEF Succeeded
  <2>4. InForce(call.method, call.arguments)
    BY <1>2, <1>5, <2>2, <2>3 DEF SettingInv, DoneInv
  <2>5. executing' = executing /\ rild' = rild /\ modem' = modem
    BY DEF Return, rilVars
  <2> QED BY <2>2, <2>4, <2>5 DEF InForce, Quiet
<1>6. DoneInv'
  BY <1>2, <1>5 DEF DoneInv
<1> QED BY <1>1, <1>3, <1>4, <1>6 DEF SettingInv

-----------------------------------------------------------------------------
(* The phone process.                                                      *)

\* A request joins the others.
LEMMA Appended ==
    ASSUME NEW s \in Seq(Requests), NEW r \in Requests
    PROVE  /\ Append(s, r) \in Seq(Requests)
           /\ Len(Append(s, r)) = Len(s) + 1 /\ Len(s) \in Nat
           /\ Append(s, r)[Len(s) + 1] = r
           /\ \A i \in 1 .. Len(s) : Append(s, r)[i] = s[i]
OBVIOUS

LEMMA ServiceTakesStep ==
    ASSUME SettingInv, ServiceTakes
    PROVE  SettingInv'
<1>1. /\ call # Null /\ call.stage = "sent" /\ call.to = service
      /\ UNCHANGED << uid, interface, callback, last, phoneVars, executing, modem >>
  BY DEF ServiceTakes
<1>2. /\ call \in ClientCalls /\ Suits(call.method, call.arguments)
      /\ service \in 1 .. started /\ started \in Nat /\ rild \in Seq(Requests)
      /\ service # Null
  BY <1>1, SecrilAssumption DEF SettingInv, PathTypes
<1>3. ForeignAtModem /\ AllForeign(rild)
  BY <1>1, <1>2 DEF SettingInv, OwnInv, Waiting
<1>4. CASE Permitted(uid, call.method)
  <2> DEFINE r == [from |-> service, method |-> call.method,
                   parcel |-> Build(call.method, call.arguments)]
  <2>1. rild' = Append(rild, r) /\ call' = [call EXCEPT !.stage = "waiting"]
    BY <1>4 DEF ServiceTakes
  <2>2. /\ call' \in ClientCalls /\ call'.method = call.method
        /\ call'.arguments = call.arguments /\ call'.to = call.to /\ call'.stage = "waiting"
    BY <1>2, <2>1 DEF ClientCalls
  <2>3. /\ r \in Requests /\ r.from = service /\ r.method = call.method
        /\ r.parcel = Build(call.method, call.arguments)
    <3>1. call.method \in Methods /\ call.arguments \in Seq(Int)
      BY <1>2 DEF ClientCalls
    <3>2. Build(call.method, call.arguments) \in Parcels
      BY <3>1, BuildsParcel
    <3> QED BY <1>2, <3>1, <3>2 DEF Requests
  <2> HIDE DEF r
  <2>4. /\ rild' \in Seq(Requests) /\ Len(rild') = Len(rild) + 1 /\ Len(rild) \in Nat
        /\ rild'[Len(rild) + 1] = r
        /\ \A i \in 1 .. Len(rild) : rild'[i] = rild[i]
    BY <1>2, <2>1, <2>3, Appended
  <2>5. PathTypes'
    BY <1>1, <1>2, <2>2, <2>4 DEF PathTypes, SettingInv, phoneVars
  <2>6. RequestInv'
    <3>1. Sanctioned(r)
      BY <1>2, <1>4, <2>3 DEF Sanctioned, ClientCalls
    <3>3. ASSUME NEW i \in 1 .. Len(rild')
          PROVE  Attaches(rild'[i]) \/ Sanctioned(rild'[i])
      <4>1. i \in 1 .. Len(rild) \/ i = Len(rild) + 1
        BY <2>4
      <4> QED BY <2>4, <3>1, <4>1 DEF SettingInv, RequestInv
    <3>4. \A i \in 1 .. Len(rild') : (Attaches(rild[i]) \/ Sanctioned(rild[i]))'
      BY <1>1, <3>3 DEF Attaches, Sanctioned, phoneVars
    <3>5. executing' # Null =>
            /\ executing'.request.from \in 1 .. started'
            /\ executing'.request.method \in Methods \ {"samsungOemRequest"}
            /\ Permitted(uid', executing'.request.method)
            /\ executing'.message[1] = NameOf(executing'.request.method)
      BY <1>1 DEF SettingInv, RequestInv, phoneVars
    <3> QED BY <3>4, <3>5 DEF RequestInv
  <2>7. OwnQueued'
    <3> DEFINE k == Len(rild) + 1
    <3>1. k \in 1 .. Len(rild') /\ 1 .. k - 1 = 1 .. Len(rild) /\ k + 1 .. Len(rild') = {}
      BY <2>4
    <3>2. rild'[k].from = service' /\ rild'[k].parcel = Build(call'.method, call'.arguments)
      BY <1>1, <2>2, <2>3, <2>4 DEF phoneVars
    <3>3. \A i \in 1 .. k - 1 : rild'[i].from # service'
      BY <1>1, <1>3, <2>4, <3>1 DEF AllForeign, Foreign, phoneVars
    <3> QED BY <3>1, <3>2, <3>3 DEF OwnQueued, Foreign
  <2>8. OwnInv'
    <3>1. Waiting'
      BY <1>1, <2>2, SecrilAssumption DEF Waiting, phoneVars
    <3>2. ForeignAtModem'
      BY <1>1, <1>3 DEF ForeignAtModem, Foreign, phoneVars
    <3> QED BY <2>7, <3>1, <3>2 DEF OwnInv
  <2>9. DoneInv'
    BY <2>2, SecrilAssumption DEF DoneInv
  <2> QED BY <2>5, <2>6, <2>8, <2>9 DEF SettingInv
<1>5. CASE ~ Permitted(uid, call.method)
  <2>1. call' = Replied(StubReply(FALSE)) /\ rild' = rild
    BY <1>5 DEF ServiceTakes
  <2>2. UNCHANGED << phoneVars, rilVars, modem, uid >>
    BY <2>1 DEF ServiceTakes, rilVars
  <2>3. StubReply(FALSE) \in Seq(Int) /\ ~ ProxyResult(StubReply(FALSE))
    BY Replies
  <2>4. /\ call' \in ClientCalls /\ call'.stage = "replied" /\ ~ ProxyResult(call'.reply)
        /\ call'.method = call.method /\ call'.arguments = call.arguments
        /\ call'.to = call.to
    BY <1>2, <2>1, <2>3, RepliedFields
  <2>5. /\ RequestInv'
        /\ AllForeign(rild)' <=> AllForeign(rild)
        /\ ForeignAtModem' <=> ForeignAtModem
    BY <2>2, PathKept
  <2>6. PathTypes'
    BY <1>1, <2>1, <2>4 DEF PathTypes, SettingInv, phoneVars
  <2>7. OwnInv'
    BY <1>3, <2>4, <2>5 DEF OwnInv, Waiting
  <2>8. DoneInv'
    BY <2>4, SecrilAssumption DEF DoneInv
  <2> QED BY <2>5, <2>6, <2>7, <2>8 DEF SettingInv
<1> QED BY <1>4, <1>5

LEMMA ServiceGoneStep ==
    ASSUME SettingInv, ServiceGone
    PROVE  SettingInv'
<1>1. /\ call # Null /\ call.to # service /\ call' = Replied(<< >>)
      /\ UNCHANGED << phoneVars, rilVars, modem, uid, interface, callback >>
  BY DEF ServiceGone
<1>2. call \in ClientCalls
  BY <1>1 DEF SettingInv, PathTypes
<1>3. << >> \in Seq(Int) /\ ~ ProxyResult(<< >>)
  BY Replies
<1>4. /\ call' \in ClientCalls /\ call'.stage = "replied" /\ ~ ProxyResult(call'.reply)
      /\ call'.method = call.method /\ call'.arguments = call.arguments
      /\ call'.to = call.to
  BY <1>1, <1>2, <1>3, RepliedFields
<1>5. /\ RequestInv'
      /\ AllForeign(rild)' <=> AllForeign(rild)
      /\ ForeignAtModem' <=> ForeignAtModem
      /\ rild' \in Seq(Requests)
  BY <1>1, PathKept
<1>6. PathTypes'
  BY <1>1, <1>4, <1>5 DEF PathTypes, SettingInv, phoneVars
<1>7. OwnInv'
  BY <1>1, <1>4, <1>5 DEF SettingInv, OwnInv, Waiting, phoneVars
<1>8. DoneInv'
  BY <1>4, SecrilAssumption DEF DoneInv
<1> QED BY <1>5, <1>6, <1>7, <1>8 DEF SettingInv

LEMMA PhoneStartsStep ==
    ASSUME SettingInv, PhoneStarts
    PROVE  SettingInv'
<1>1. /\ service = Null /\ started \in Nat /\ started' = started + 1 /\ service' = started + 1
      /\ UNCHANGED << clientVars, rilVars, modem >>
  BY DEF PhoneStarts, SettingInv, PathTypes
<1>2. \A n \in 1 .. started : n \in 1 .. started' /\ n # service' /\ n # Null
  BY <1>1, SecrilAssumption
<1>3. /\ call' = call /\ last' = last /\ uid' = uid /\ interface' = interface
      /\ callback' = callback /\ rild' = rild /\ executing' = executing /\ modem' = modem
  BY <1>1 DEF clientVars, rilVars
<1>4. PathTypes'
  <2>1. started' \in Nat /\ service' \in 1 .. started'
    BY <1>1
  <2> QED BY <1>2, <1>3, <2>1 DEF PathTypes, SettingInv
<1>5. RequestInv'
  <2>1. \A i \in 1 .. Len(rild) : Attaches(rild[i])' \/ Sanctioned(rild[i])'
    BY <1>2, <1>3 DEF SettingInv, RequestInv, Attaches, Sanctioned
  <2>2. executing' # Null =>
          /\ executing'.request.from \in 1 .. started'
          /\ executing'.request.method \in Methods \ {"samsungOemRequest"}
          /\ Permitted(uid', executing'.request.method)
          /\ executing'.message[1] = NameOf(executing'.request.method)
    BY <1>2, <1>3 DEF SettingInv, RequestInv
  <2> QED BY <1>3, <2>1, <2>2 DEF RequestInv
<1>6. ~ Waiting'
  BY <1>2, <1>3 DEF Waiting, SettingInv, PathTypes
<1>7. ForeignAtModem'
  BY <1>2, <1>3 DEF ForeignAtModem, Foreign, SettingInv, RequestInv
<1>8. AllForeign(rild)'
  <2>1. ASSUME NEW i \in 1 .. Len(rild) PROVE rild[i].from # service'
    <3>1. rild[i].from = Null \/ rild[i].from \in 1 .. started
      BY DEF SettingInv, RequestInv, Attaches, Sanctioned
    <3>2. service' # Null
      BY <1>1, SecrilAssumption
    <3> QED BY <1>2, <3>1, <3>2
  <2> QED BY <1>3, <2>1 DEF AllForeign, Foreign
<1>9. OwnInv'
  BY <1>6, <1>7, <1>8 DEF OwnInv
<1>10. DoneInv'
  BY <1>3 DEF SettingInv, DoneInv, InForce, Quiet
<1> QED BY <1>4, <1>5, <1>9, <1>10 DEF SettingInv

\* The phone process dies: what it has not written is cut off.
LEMMA PhoneDiesStep ==
    ASSUME SettingInv, PhoneDies
    PROVE  SettingInv'
<1>1. PICK k \in 0 .. Len(rild) : rild' = SubSeq(rild, 1, k)
  BY DEF PhoneDies
<1>2. /\ service' = Null /\ UNCHANGED << clientVars, started, executing, radioOn, outages, modem >>
  BY DEF PhoneDies
<1>3. /\ call' = call /\ last' = last /\ uid' = uid /\ interface' = interface
      /\ callback' = callback /\ executing' = executing /\ modem' = modem /\ started' = started
  BY <1>2 DEF clientVars
<1>4. rild \in Seq(Requests) /\ Len(rild) \in Nat
  BY LenProperties DEF SettingInv, PathTypes
<1>5. /\ rild' \in Seq(Requests) /\ Len(rild') = k
      /\ \A i \in 1 .. k : rild'[i] = rild[i] /\ i \in 1 .. Len(rild)
  BY <1>1, <1>4
<1>6. PathTypes'
  BY <1>2, <1>3, <1>5 DEF SettingInv, PathTypes
<1>7. RequestInv'
  <2>1. \A i \in 1 .. Len(rild') : (Attaches(rild[i]) \/ Sanctioned(rild[i]))'
    BY <1>3, <1>5 DEF SettingInv, RequestInv, Attaches, Sanctioned
  <2>2. executing' # Null =>
          /\ executing'.request.from \in 1 .. started'
          /\ executing'.request.method \in Methods \ {"samsungOemRequest"}
          /\ Permitted(uid', executing'.request.method)
          /\ executing'.message[1] = NameOf(executing'.request.method)
    BY <1>3 DEF SettingInv, RequestInv
  <2> QED BY <2>1, <2>2 DEF RequestInv
<1>8. OwnInv'
  <2>1. ~ Waiting'
    <3>1. call # Null => call.to \in Nat
      BY DEF SettingInv, PathTypes
    <3> QED BY <1>2, <1>3, <3>1, SecrilAssumption DEF Waiting
  <2> QED BY <1>2, <2>1 DEF OwnInv
<1>9. \A m, a : InForce(m, a) => InForce(m, a)'
  BY <1>3, <1>5 DEF InForce, Quiet
<1>10. DoneInv'
  BY <1>3, <1>9 DEF SettingInv, DoneInv
<1> QED BY <1>6, <1>7, <1>8, <1>10 DEF SettingInv

-----------------------------------------------------------------------------
(* rild and the modem.                                                     *)

LEMMA RadioOffStep ==
    ASSUME SettingInv, RadioOff
    PROVE  SettingInv'
<1>1. /\ call' = call /\ last' = last /\ uid' = uid /\ interface' = interface
      /\ callback' = callback /\ rild' = rild /\ executing' = executing /\ modem' = modem
      /\ started' = started /\ service' = service
  BY DEF RadioOff, clientVars, phoneVars
<1>2. PathTypes'
  BY <1>1 DEF SettingInv, PathTypes
<1>3. RequestInv'
  BY <1>1 DEF SettingInv, RequestInv, Attaches, Sanctioned
<1>4. OwnInv'
  BY <1>1 DEF SettingInv, OwnInv, Waiting, OwnExecuting, OwnQueued, ForeignAtModem, AllForeign,
              Foreign, Quiet
<1>5. DoneInv'
  BY <1>1 DEF SettingInv, DoneInv, InForce, Quiet
<1> QED BY <1>2, <1>3, <1>4, <1>5 DEF SettingInv

LEMMA RadioBackStep ==
    ASSUME SettingInv, RadioBack
    PROVE  SettingInv'
<1> DEFINE r == [from |-> Null, method |-> "attach", parcel |-> BuildAttach(TRUE)]
<1>1. /\ call' = call /\ last' = last /\ uid' = uid /\ interface' = interface
      /\ callback' = callback /\ executing' = executing /\ modem' = modem
      /\ started' = started /\ service' = service
  BY DEF RadioBack, clientVars, phoneVars
<1>2. CASE service = Null
  <2>1. rild' = rild
    BY <1>2 DEF RadioBack
  <2>2. PathTypes'
    BY <1>1, <2>1 DEF SettingInv, PathTypes
  <2>3. RequestInv'
    BY <1>1, <2>1 DEF SettingInv, RequestInv, Attaches, Sanctioned
  <2>4. OwnInv'
    BY <1>1, <2>1 DEF SettingInv, OwnInv, Waiting, OwnExecuting, OwnQueued, ForeignAtModem,
                      AllForeign, Foreign, Quiet
  <2>5. DoneInv'
    BY <1>1, <2>1 DEF SettingInv, DoneInv, InForce, Quiet
  <2> QED BY <2>2, <2>3, <2>4, <2>5 DEF SettingInv
<1>3. CASE service # Null
  <2>1. rild' = Append(rild, r)
    BY <1>3 DEF RadioBack
  <2>2. r \in Requests /\ r.from = Null /\ r.parcel = BuildAttach(TRUE)
    <3>1. Attachment \in Parcels
      BY DEF Parcels
    <3>2. r = [from |-> Null, method |-> "attach", parcel |-> Attachment]
      BY Zenon DEF Attachment
    <3>3. r \in Requests /\ r.from = Null /\ r.parcel = Attachment
      BY <3>1, <3>2 DEF Requests
    <3> QED BY <3>3, Zenon DEF Attachment
  <2> HIDE DEF r
  <2>3. rild \in Seq(Requests)
    BY DEF SettingInv, PathTypes
  <2>4. /\ rild' \in Seq(Requests) /\ Len(rild') = Len(rild) + 1 /\ Len(rild) \in Nat
        /\ rild'[Len(rild) + 1] = r
        /\ \A i \in 1 .. Len(rild) : rild'[i] = rild[i]
    BY <2>1, <2>2, <2>3, Appended
  <2>5. \A i \in 1 .. Len(rild') : i \in 1 .. Len(rild) \/ i = Len(rild) + 1
    BY <2>4
  <2>6. PathTypes'
    BY <1>1, <2>4 DEF SettingInv, PathTypes
  <2>7. RequestInv'
    <3>1. \A i \in 1 .. Len(rild') : (Attaches(rild[i]) \/ Sanctioned(rild[i]))'
      BY <1>1, <2>2, <2>4, <2>5 DEF SettingInv, RequestInv, Attaches, Sanctioned
    <3>2. executing' # Null =>
            /\ executing'.request.from \in 1 .. started'
            /\ executing'.request.method \in Methods \ {"samsungOemRequest"}
            /\ Permitted(uid', executing'.request.method)
            /\ executing'.message[1] = NameOf(executing'.request.method)
      BY <1>1 DEF SettingInv, RequestInv
    <3> QED BY <3>1, <3>2 DEF RequestInv
  <2>8. Quiet(rild) => Quiet(rild)'
    BY <2>2, <2>4, <2>5 DEF Quiet
  <2>9. AllForeign(rild) => AllForeign(rild)'
    BY <1>1, <1>3, <2>2, <2>4, <2>5 DEF AllForeign, Foreign
  <2>10. OwnQueued => OwnQueued'
    <3>1. SUFFICES ASSUME OwnQueued PROVE OwnQueued'
      OBVIOUS
    <3>2. PICK k \in 1 .. Len(rild) :
             /\ rild[k].from = service
             /\ rild[k].parcel = Build(call.method, call.arguments)
             /\ \A i \in 1 .. k - 1 : Foreign(rild[i])
             /\ \A i \in k + 1 .. Len(rild) : rild[i].from = Null
      BY <3>1 DEF OwnQueued
    <3>3. k \in 1 .. Len(rild') /\ (\A i \in 1 .. k - 1 : i \in 1 .. Len(rild))
      BY <2>4
    <3>4. \A i \in k + 1 .. Len(rild') : rild'[i].from = Null
      <4>1. \A i \in k + 1 .. Len(rild') :
               (i \in 1 .. Len(rild) /\ i \in k + 1 .. Len(rild)) \/ i = Len(rild) + 1
        BY <2>4
      <4> QED BY <2>2, <2>4, <3>2, <4>1
    <3> QED BY <1>1, <2>4, <3>2, <3>3, <3>4 DEF OwnQueued, Foreign
  <2>11. OwnInv'
    BY <1>1, <2>8, <2>9, <2>10 DEF SettingInv, OwnInv, Waiting, OwnExecuting, ForeignAtModem, Foreign
  <2>12. DoneInv'
    BY <1>1, <2>8 DEF SettingInv, DoneInv, InForce
  <2> QED BY <2>6, <2>7, <2>11, <2>12 DEF SettingInv
<1> QED BY <1>2, <1>3

\* The result of a request that is not the waiting call's goes nowhere.
LEMMA AnswerForeign ==
    ASSUME SettingInv, NEW request, NEW reply, Answer(request, reply),
           Waiting => Foreign(request)
    PROVE  call' = call
BY DEF Answer, Waiting, Foreign

LEMMA AnswerOwn ==
    ASSUME SettingInv, NEW request, NEW reply \in Seq(Int), Answer(request, reply), Waiting,
           ~ Foreign(request)
    PROVE  /\ call' \in ClientCalls /\ call'.stage = "replied" /\ call'.reply = reply
           /\ call'.method = call.method /\ call'.arguments = call.arguments
           /\ call'.to = call.to
<1>1. call' = Replied(reply)
  BY DEF Answer, Waiting, Foreign
<1>2. call \in ClientCalls
  BY DEF Waiting, SettingInv, PathTypes
<1> QED BY <1>1, <1>2, RepliedFields

\* The modem's answer, to a call that waits for it or to nobody.
LEMMA ModemStep ==
    ASSUME SettingInv, NEW reply \in Seq(Int), executing # Null, executing' = Null,
           Answer(executing.request, reply),
           UNCHANGED << uid, interface, callback, last, phoneVars, rild >>,
           \/ ~ ProxyResult(reply)
           \/ executing.message[1] = "SndGetMicMute"
           \/ modem'.message = executing.message
    PROVE  SettingInv'
<1>1. /\ last' = last /\ uid' = uid /\ interface' = interface /\ callback' = callback
      /\ rild' = rild /\ started' = started /\ service' = service
  BY DEF phoneVars
<1>2. RequestInv'
  BY <1>1 DEF SettingInv, RequestInv, Attaches, Sanctioned
<1>3. ForeignAtModem'
  BY DEF ForeignAtModem
<1>4. CASE Waiting /\ ~ Foreign(executing.request)
  <2>1. OwnExecuting
    BY <1>4 DEF SettingInv, OwnInv, ForeignAtModem
  <2>2. /\ call' \in ClientCalls /\ call'.stage = "replied" /\ call'.reply = reply
        /\ call'.method = call.method /\ call'.arguments = call.arguments
        /\ call'.to = call.to
    BY <1>4, AnswerOwn
  <2>3. PathTypes'
    BY <1>1, <1>4, <2>2 DEF SettingInv, PathTypes, Waiting
  <2>4. service # Null
    BY <1>4, SecrilAssumption DEF Waiting, SettingInv, PathTypes
  <2>5. AllForeign(rild)'
    BY <1>1, <2>1, <2>4 DEF OwnExecuting, Quiet, AllForeign, Foreign
  <2>6. OwnInv'
    BY <1>3, <2>2, <2>5 DEF OwnInv, Waiting
  <2>7. DoneInv'
    <3>1. call' # Null
      BY <2>2, SecrilAssumption
    <3>2. ASSUME call'.method \in Setters, ProxyResult(call'.reply)
          PROVE  InForce(call.method, call.arguments)'
      <4>1. executing.message[1] = NameOf(call.method)
        BY <2>1 DEF OwnExecuting, Carries
      <4>2. NameOf(call.method) # "SndGetMicMute"
        BY <2>2, <3>2, SetterNames
      <4>3. modem'.message = executing.message
        BY <2>2, <3>2, <4>1, <4>2
      <4> QED BY <1>1, <2>1, <2>2, <4>3 DEF InForce, OwnExecuting, Quiet
    <3> QED BY <3>1, <3>2 DEF DoneInv
  <2> QED BY <1>2, <2>3, <2>6, <2>7 DEF SettingInv
<1>5. CASE Waiting => Foreign(executing.request)
  <2>1. call' = call
    BY <1>5, AnswerForeign
  <2>2. PathTypes'
    BY <1>1, <2>1 DEF SettingInv, PathTypes
  <2>3. Waiting => OwnQueued
    BY <1>5 DEF SettingInv, OwnInv, OwnExecuting, Foreign
  <2>4. Waiting' => OwnQueued'
    BY <1>1, <2>1, <2>3 DEF Waiting, OwnQueued, Foreign
  <2>5. ~ Waiting' /\ service' # Null => AllForeign(rild)'
    BY <1>1, <2>1 DEF SettingInv, OwnInv, Waiting, AllForeign, Foreign
  <2>6. OwnInv'
    BY <1>3, <2>4, <2>5 DEF OwnInv
  <2>7. DoneInv'
    BY <1>1, <2>1 DEF SettingInv, DoneInv, InForce
  <2> QED BY <1>2, <2>2, <2>6, <2>7 DEF SettingInv
<1> QED BY <1>4, <1>5

LEMMA ModemFailsStep ==
    ASSUME SettingInv, ModemFails
    PROVE  SettingInv'
<1>1. StubReply(FALSE) \in Seq(Int) /\ ~ ProxyResult(StubReply(FALSE))
  BY Replies
<1> QED BY <1>1, ModemStep DEF ModemFails

\* The message that the modem has carried out.
LEMMA MessageField ==
    ASSUME NEW message, NEW muted
    PROVE  [message |-> message, muted |-> muted].message = message
OBVIOUS

LEMMA Obeyed ==
    ASSUME ModemObeys, executing.message[1] # "SndGetMicMute"
    PROVE  Answer(executing.request, StubReply(TRUE)) /\ modem'.message = executing.message
<1>1. /\ Answer(executing.request, StubReply(TRUE))
      /\ modem' = [message |-> executing.message,
                   muted |-> IF executing.message[1] = "SndSetMicMute"
                             THEN executing.message[2] = 1 ELSE modem.muted]
  BY Zenon DEF ModemObeys
<1> QED BY <1>1, MessageField, Zenon

LEMMA ModemObeysStep ==
    ASSUME SettingInv, ModemObeys
    PROVE  SettingInv'
<1>1. /\ executing # Null /\ executing' = Null
      /\ UNCHANGED << uid, interface, callback, last, phoneVars, rild >>
  BY DEF ModemObeys
<1>2. CASE executing.message[1] = "SndGetMicMute"
  <2>1. Answer(executing.request, StubMuteReply(TRUE, modem.muted))
    BY <1>2 DEF ModemObeys
  <2>2. StubMuteReply(TRUE, modem.muted) \in Seq(Int)
    <3> DEFINE bit == IF modem.muted THEN 1 ELSE 0
    <3>1. bit = 0 \/ bit = 1
      BY Zenon
    <3>2. StubMuteReply(TRUE, modem.muted) = StubReply(TRUE) \o << 1, bit >>
      BY Zenon DEF StubMuteReply
    <3> HIDE DEF bit
    <3>3. << 1, bit >> \in Seq(Int)
      BY <3>1
    <3>4. StubReply(TRUE) \in Seq(Int)
      BY Replies, Zenon
    <3> QED BY <3>2, <3>3, <3>4, ConcatProperties, Zenon
  <2> QED BY <1>1, <1>2, <2>1, <2>2, ModemStep
<1>3. CASE executing.message[1] # "SndGetMicMute"
  <2>1. Answer(executing.request, StubReply(TRUE)) /\ modem'.message = executing.message
    BY <1>3, Obeyed
  <2>2. StubReply(TRUE) \in Seq(Int)
    BY Replies
  <2> QED BY <1>1, <2>1, <2>2, ModemStep
<1> QED BY <1>2, <1>3

\* The first request is taken from the others.
LEMMA Taken ==
    ASSUME NEW s \in Seq(Requests), s # << >>
    PROVE  /\ Len(s) \in Nat /\ 1 \in 1 .. Len(s) /\ Head(s) = s[1] /\ s[1] \in Requests
           /\ Tail(s) \in Seq(Requests) /\ Len(Tail(s)) = Len(s) - 1
           /\ \A i \in 1 .. Len(Tail(s)) : Tail(s)[i] = s[i + 1] /\ i + 1 \in 2 .. Len(s)
<1>1. Len(s) \in Nat /\ Len(s) # 0
  BY EmptySeq, LenProperties
<1>2. 1 \in 1 .. Len(s)
  BY <1>1
<1>3. s[1] \in Requests
  BY <1>2, ElementOfSeq
<1>4. /\ Head(s) = s[1] /\ Tail(s) \in Seq(Requests) /\ Len(Tail(s)) = Len(s) - 1
      /\ \A i \in 1 .. Len(Tail(s)) : Tail(s)[i] = s[i + 1]
  BY HeadTailProperties
<1>5. \A i \in 1 .. Len(Tail(s)) : i + 1 \in 2 .. Len(s)
  BY <1>1, <1>4
<1> QED BY <1>1, <1>2, <1>3, <1>4, <1>5

LEMMA QueueMovesUp ==
    ASSUME SettingInv, rild # << >>, rild' = Tail(rild), service' = service, call' = call,
           OwnQueued, Foreign(rild[1])
    PROVE  OwnQueued'
<1>1. PICK k \in 1 .. Len(rild) :
         /\ rild[k].from = service
         /\ rild[k].parcel = Build(call.method, call.arguments)
         /\ \A i \in 1 .. k - 1 : Foreign(rild[i])
         /\ \A i \in k + 1 .. Len(rild) : rild[i].from = Null
  BY DEF OwnQueued
<1>2. /\ Len(rild) \in Nat /\ Len(rild') = Len(rild) - 1
      /\ \A i \in 1 .. Len(rild') : rild'[i] = rild[i + 1]
  BY Taken DEF SettingInv, PathTypes
<1>3. k # 1
  BY <1>1 DEF Foreign
<1> DEFINE j == k - 1
<1>4. j \in 1 .. Len(rild') /\ j + 1 = k
  BY <1>2, <1>3
<1>5. \A i \in 1 .. j - 1 : i \in 1 .. Len(rild') /\ i + 1 \in 1 .. k - 1
  BY <1>2, <1>4
<1>6. \A i \in j + 1 .. Len(rild') : i \in 1 .. Len(rild') /\ i + 1 \in k + 1 .. Len(rild)
  BY <1>2, <1>4
<1> HIDE DEF j
<1>7. rild'[j].from = service' /\ rild'[j].parcel = Build(call'.method, call'.arguments)
  BY <1>1, <1>2, <1>4
<1>8. \A i \in 1 .. j - 1 : rild'[i].from # service'
  BY <1>1, <1>2, <1>5 DEF Foreign
<1>9. \A i \in j + 1 .. Len(rild') : rild'[i].from = Null
  BY <1>1, <1>2, <1>6
<1> QED BY <1>4, <1>7, <1>8, <1>9 DEF OwnQueued, Foreign

LEMMA OwnIsLast ==
    ASSUME SettingInv, rild # << >>, OwnQueued, ~ Foreign(rild[1]), service # Null
    PROVE  rild[1].parcel = Build(call.method, call.arguments) /\ Quiet(Tail(rild))
<1>1. PICK k \in 1 .. Len(rild) :
         /\ rild[k].from = service
         /\ rild[k].parcel = Build(call.method, call.arguments)
         /\ \A i \in 1 .. k - 1 : Foreign(rild[i])
         /\ \A i \in k + 1 .. Len(rild) : rild[i].from = Null
  BY DEF OwnQueued
<1>2. /\ Len(rild) \in Nat
      /\ \A i \in 1 .. Len(Tail(rild)) : Tail(rild)[i] = rild[i + 1] /\ i + 1 \in 2 .. Len(rild)
  BY Taken DEF SettingInv, PathTypes
<1>3. k = 1
  <2>1. k # 1 => 1 \in 1 .. k - 1
    BY <1>2
  <2> QED BY <1>1, <2>1
<1>4. Quiet(Tail(rild))
  <2>1. \A i \in 2 .. Len(rild) : rild[i].from = Null
    BY <1>1, <1>3
  <2> QED BY <1>2, <2>1 DEF Quiet
<1> QED BY <1>1, <1>3, <1>4

\* What taking the first request leaves as it was.
LEMMA TakeKeeps ==
    ASSUME SettingInv, rild # << >>, rild' = Tail(rild),
           UNCHANGED << uid, interface, callback, last, phoneVars, modem >>
    PROVE  /\ rild' \in Seq(Requests)
           /\ started' \in Nat /\ (service' = Null \/ service' \in 1 .. started')
           /\ \A i \in 1 .. Len(rild') : (Attaches(rild[i]) \/ Sanctioned(rild[i]))'
           /\ AllForeign(rild) => AllForeign(rild)'
           /\ Quiet(rild) => Quiet(rild)'
<1>1. /\ rild' \in Seq(Requests)
      /\ \A i \in 1 .. Len(rild') : rild'[i] = rild[i + 1] /\ i + 1 \in 2 .. Len(rild)
      /\ Len(rild) \in Nat
  BY Taken DEF SettingInv, PathTypes
<1>2. \A i \in 1 .. Len(rild') : rild'[i] = rild[i + 1] /\ i + 1 \in 1 .. Len(rild)
  <2>1. \A i \in 2 .. Len(rild) : i \in 1 .. Len(rild)
    BY <1>1
  <2> QED BY <1>1, <2>1
<1>3. started' = started /\ service' = service /\ uid' = uid
  BY DEF phoneVars
<1>4. started' \in Nat /\ (service' = Null \/ service' \in 1 .. started')
  BY <1>3 DEF SettingInv, PathTypes
<1>5. \A i \in 1 .. Len(rild') : (Attaches(rild[i]) \/ Sanctioned(rild[i]))'
  <2>1. \A i \in 1 .. Len(rild') : Attaches(rild'[i]) \/ Sanctioned(rild'[i])
    BY <1>2 DEF SettingInv, RequestInv
  <2> QED BY <1>3, <2>1 DEF Attaches, Sanctioned
<1>6. AllForeign(rild) => AllForeign(rild)'
  BY <1>2, <1>3 DEF AllForeign, Foreign
<1>7. Quiet(rild) => Quiet(rild)'
  BY <1>2 DEF Quiet
<1> QED BY <1>1, <1>4, <1>5, <1>6, <1>7

\* A request is taken and does nothing to a call: an attachment, or a request
\* that is refused and that nobody waits for.
LEMMA NothingDone ==
    ASSUME SettingInv, rild # << >>, rild' = Tail(rild), executing = Null, executing' = Null,
           UNCHANGED << uid, interface, callback, last, phoneVars, modem >>,
           call' = call, Waiting => Foreign(rild[1])
    PROVE  SettingInv'
<1>1. /\ rild' \in Seq(Requests)
      /\ started' \in Nat /\ (service' = Null \/ service' \in 1 .. started')
      /\ \A i \in 1 .. Len(rild') : (Attaches(rild[i]) \/ Sanctioned(rild[i]))'
      /\ AllForeign(rild) => AllForeign(rild)'
      /\ Quiet(rild) => Quiet(rild)'
  BY TakeKeeps
<1>2. /\ started' = started /\ service' = service /\ uid' = uid /\ last' = last
      /\ interface' = interface /\ callback' = callback /\ modem' = modem
  BY DEF phoneVars
<1>3. PathTypes'
  BY <1>1, <1>2 DEF SettingInv, PathTypes
<1>4. RequestInv'
  BY <1>1 DEF RequestInv
<1>5. ForeignAtModem'
  BY DEF ForeignAtModem
<1>6. OwnInv'
  <2>1. CASE ~ Waiting
    <3>1. ~ Waiting'
      BY <1>2, <2>1 DEF Waiting
    <3> QED BY <1>1, <1>2, <1>5, <2>1, <3>1 DEF SettingInv, OwnInv
  <2>2. CASE Waiting /\ OwnQueued
    <3>1. OwnQueued' /\ Waiting'
      BY <1>2, <2>2, QueueMovesUp DEF Waiting
    <3> QED BY <1>5, <3>1 DEF OwnInv
  <2>3. CASE Waiting /\ OwnExecuting
    <3>1. OwnExecuting' /\ Waiting'
      BY <1>1, <1>2, <2>3 DEF OwnExecuting, Waiting
    <3> QED BY <3>1 DEF OwnInv
  <2> QED BY <2>1, <2>2, <2>3 DEF SettingInv, OwnInv
<1>7. DoneInv'
  BY <1>1, <1>2 DEF SettingInv, DoneInv, InForce
<1> QED BY <1>3, <1>4, <1>6, <1>7 DEF SettingInv

LEMMA RildTakesStep ==
    ASSUME SettingInv, RildTakes
    PROVE  SettingInv'
<1> DEFINE request == Head(rild)
<1>1. /\ rild # << >> /\ executing = Null /\ rild' = Tail(rild)
      /\ UNCHANGED << uid, interface, callback, last, phoneVars, modem >>
  BY DEF RildTakes
<1>2. PICK beyond \in {0, 17} :
         LET outcome == HandleOemHookRaw(request.parcel, radioOn, beyond)
         IN  IF outcome.status = "EXECUTE"
             THEN /\ executing' = [request |-> request, message |-> outcome.message]
                  /\ UNCHANGED call
             ELSE /\ Answer(request, StubReply(outcome.status = "SUCCESS"))
                  /\ UNCHANGED executing
  BY Zenon DEF RildTakes
<1> DEFINE outcome == HandleOemHookRaw(request.parcel, radioOn, beyond)
<1>3. request = rild[1] /\ 1 \in 1 .. Len(rild) /\ Len(rild) \in Nat
  BY <1>1, Taken DEF SettingInv, PathTypes
<1>4. Attaches(request) \/ Sanctioned(request)
  BY <1>3 DEF SettingInv, RequestInv
<1>5. Waiting => service # Null
  BY SecrilAssumption DEF Waiting, SettingInv, PathTypes
<1>6. CASE Attaches(request)
  <2>1. request.from = Null /\ request.parcel = BuildAttach(TRUE)
    BY <1>6 DEF Attaches
  <2>2. outcome.status = "SUCCESS"
    <3>1. outcome = HandleOemHookRaw(BuildAttach(TRUE), radioOn, beyond)
      BY <2>1, Zenon
    <3> QED BY <3>1, AttachDecoded, Zenon
  <2>3. Answer(request, StubReply(outcome.status = "SUCCESS")) /\ executing' = executing
    BY <1>2, <2>2, Zenon
  <2>4. Waiting => Foreign(request)
    BY <1>5, <2>1 DEF Foreign
  <2>5. call' = call
    BY <2>3, <2>4, AnswerForeign, Zenon
  <2> QED BY <1>1, <1>3, <2>3, <2>4, <2>5, NothingDone
<1>7. CASE Sanctioned(request)
  <2>1. /\ request.from \in 1 .. started /\ request.method \in Methods
        /\ Permitted(uid, request.method) /\ request.from # Null
    BY <1>7, SecrilAssumption DEF Sanctioned, SettingInv, PathTypes
  <2>2. PICK a : Suits(request.method, a) /\ request.parcel = Build(request.method, a)
    BY <1>7 DEF Sanctioned
  <2>3. Decodes(request.method, a, outcome)
    BY <2>1, <2>2, RequestDecoded
  <2>4. ~ Quiet(rild)
    BY <1>3, <2>1 DEF Quiet
  <2>5. Waiting => ForeignAtModem /\ OwnQueued
    BY <2>4 DEF SettingInv, OwnInv, OwnExecuting
  <2>6. Waiting /\ ~ Foreign(request) =>
          /\ request.parcel = Build(call.method, call.arguments)
          /\ Quiet(Tail(rild))
    BY <1>1, <1>3, <1>5, <2>5, OwnIsLast
  <2>7. /\ rild' \in Seq(Requests)
        /\ started' \in Nat /\ (service' = Null \/ service' \in 1 .. started')
        /\ \A i \in 1 .. Len(rild') : (Attaches(rild[i]) \/ Sanctioned(rild[i]))'
        /\ AllForeign(rild) => AllForeign(rild)'
    BY <1>1, TakeKeeps
  <2>8. /\ started' = started /\ service' = service /\ uid' = uid /\ last' = last
        /\ interface' = interface /\ callback' = callback /\ modem' = modem
    BY <1>1 DEF phoneVars
  <2>9. CASE outcome.status = "EXECUTE"
    <3>1. executing' = [request |-> request, message |-> outcome.message] /\ call' = call
      BY <1>2, <2>9, Zenon
    <3> HIDE DEF request, outcome
    <3>2. executing'.request = request /\ executing'.message = outcome.message
      BY <3>1
    <3>3. PathTypes'
      BY <2>7, <2>8, <3>1 DEF SettingInv, PathTypes
    <3>4. RequestInv'
      <4>1. /\ request.method # "samsungOemRequest"
            /\ outcome.message[1] = NameOf(request.method)
        BY <2>3, <2>9 DEF Decodes, Carries
      <4> QED BY <2>1, <2>7, <2>8, <3>2, <4>1 DEF RequestInv
    <3>5. OwnInv'
      <4>1. CASE ~ Waiting
        <5>1. ~ Waiting'
          BY <2>8, <3>1, <4>1 DEF Waiting
        <5>2. service # Null => Foreign(request) /\ AllForeign(rild)
          BY <1>3, <4>1 DEF SettingInv, OwnInv, AllForeign
        <5> QED BY <2>7, <2>8, <3>2, <5>1, <5>2 DEF OwnInv, ForeignAtModem, Foreign
      <4>2. CASE Waiting /\ Foreign(request)
        <5>1. OwnQueued'
          BY <1>1, <1>3, <2>5, <2>8, <3>1, <4>2, QueueMovesUp
        <5>2. Waiting' /\ ForeignAtModem'
          BY <2>8, <3>1, <3>2, <4>2 DEF Waiting, ForeignAtModem, Foreign
        <5> QED BY <5>1, <5>2 DEF OwnInv
      <4>3. CASE Waiting /\ ~ Foreign(request)
        <5>1. call.method \in Methods /\ Suits(call.method, call.arguments)
          BY <4>3 DEF Waiting, SettingInv, PathTypes, ClientCalls
        <5>2. Decodes(call.method, call.arguments, outcome)
          BY <2>6, <4>3, <5>1, RequestDecoded DEF outcome
        <5>3. Carries(call.method, call.arguments, outcome.message)
          BY <2>9, <5>2 DEF Decodes
        <5>4. Quiet(rild)'
          BY <1>1, <2>6, <4>3 DEF Quiet
        <5>5. OwnExecuting' /\ Waiting'
          BY <2>8, <3>1, <3>2, <4>3, <5>3, <5>4 DEF OwnExecuting, Waiting, Foreign
        <5> QED BY <5>5 DEF OwnInv
      <4> QED BY <4>1, <4>2, <4>3
    <3>6. DoneInv'
      BY <2>4, <2>8, <3>1 DEF SettingInv, DoneInv, InForce
    <3> QED BY <3>3, <3>4, <3>5, <3>6 DEF SettingInv
  <2>10. CASE outcome.status # "EXECUTE"
    <3>1. Answer(request, StubReply(FALSE)) /\ executing' = executing
      <4>1. /\ Answer(request, StubReply(outcome.status = "SUCCESS"))
            /\ executing' = executing
        BY <1>2, <2>10, Zenon
      <4>2. (outcome.status = "SUCCESS") = FALSE
        BY <2>3 DEF Decodes
      <4> QED BY <4>1, <4>2, Zenon
    <3>2. CASE Waiting => Foreign(request)
      <4>1. call' = call
        BY <3>1, <3>2, AnswerForeign
      <4> QED BY <1>1, <1>3, <3>1, <3>2, <4>1, NothingDone
    <3>3. CASE Waiting /\ ~ Foreign(request)
      <4>1. StubReply(FALSE) \in Seq(Int) /\ ~ ProxyResult(StubReply(FALSE))
        BY Replies
      <4>2. /\ call' \in ClientCalls /\ call'.stage = "replied"
            /\ call'.reply = StubReply(FALSE)
            /\ call'.method = call.method /\ call'.arguments = call.arguments
            /\ call'.to = call.to
        BY <3>1, <3>3, <4>1, AnswerOwn
      <4>3. PathTypes'
        BY <2>7, <2>8, <3>3, <4>2 DEF SettingInv, PathTypes, Waiting
      <4>4. RequestInv'
        BY <1>1, <2>7, <3>1 DEF RequestInv
      <4>5. AllForeign(rild)' /\ ForeignAtModem'
        BY <1>1, <1>5, <2>6, <2>8, <3>1, <3>3 DEF Quiet, AllForeign, Foreign, ForeignAtModem
      <4>6. OwnInv'
        BY <4>2, <4>5 DEF OwnInv, Waiting
      <4>7. DoneInv'
        BY <4>1, <4>2, SecrilAssumption DEF DoneInv
      <4> QED BY <4>3, <4>4, <4>6, <4>7 DEF SettingInv
    <3> QED BY <3>2, <3>3
  <2> QED BY <2>9, <2>10
<1> QED BY <1>4, <1>6, <1>7

-----------------------------------------------------------------------------
(* The theorems.                                                           *)

LEMMA SettingInit == SecrilInit => SettingInv
<1> SUFFICES ASSUME SecrilInit PROVE SettingInv
  OBVIOUS
<1>1. last.method = "open" /\ "open" \notin Setters
  BY DEF SecrilInit, Outcome, Setters, AudioMethods, ServiceModeMethods
<1>2. rild = << >> /\ rild \in Seq(Requests) /\ Len(rild) = 0
  BY DEF SecrilInit
<1>3. PathTypes
  BY <1>2 DEF SecrilInit, PathTypes
<1>4. RequestInv
  BY <1>2 DEF SecrilInit, RequestInv
<1>5. OwnInv
  BY DEF SecrilInit, OwnInv, Waiting
<1>6. DoneInv
  BY <1>1 DEF SecrilInit, DoneInv
<1> QED BY <1>3, <1>4, <1>5, <1>6 DEF SettingInv

LEMMA SettingStutter ==
    ASSUME SettingInv, UNCHANGED secrilVars
    PROVE  SettingInv'
<1>1. /\ call' = call /\ last' = last /\ uid' = uid /\ interface' = interface
      /\ callback' = callback /\ rild' = rild /\ executing' = executing /\ modem' = modem
      /\ started' = started /\ service' = service
  BY DEF secrilVars, clientVars, phoneVars, rilVars
<1>2. PathTypes'
  BY <1>1 DEF SettingInv, PathTypes
<1>3. RequestInv'
  BY <1>1 DEF SettingInv, RequestInv, Attaches, Sanctioned
<1>4. OwnInv'
  BY <1>1 DEF SettingInv, OwnInv, Waiting, OwnExecuting, OwnQueued, ForeignAtModem, AllForeign,
              Foreign, Quiet
<1>5. DoneInv'
  BY <1>1 DEF SettingInv, DoneInv, InForce, Quiet
<1> QED BY <1>2, <1>3, <1>4, <1>5 DEF SettingInv

LEMMA SettingNext == SettingInv /\ [SecrilNext]_secrilVars => SettingInv'
<1> SUFFICES ASSUME SettingInv, [SecrilNext]_secrilVars PROVE SettingInv'
  OBVIOUS
<1>1. CASE \/ Connect \/ Disconnect \/ CloseClient \/ IsConnected
           \/ \E cb \in Callbacks \cup {Null} : RegisterRequestCompleteHandler(cb)
  BY <1>1, ConnectionStep
<1>2. CASE \E a \in Values :
             \/ SetLoopbackTest(a, Other(a)) \/ SetDhaSolution(a, Other(a), Extra)
             \/ SetTwoMicControl(a, Other(a))
             \/ SetCallAudioPath(a, Other(a)) \/ SetCallVolume(a, Other(a))
             \/ SetMute(a) \/ SetCallRecord(a) \/ SetCallClockSync(a)
             \/ SetVideoCallClockSync(a)
  BY <1>2, CallStep
<1>3. CASE \E a \in Values :
             \/ ServiceModeCall("enterServiceMode", << a, Other(a) >>)
             \/ ServiceModeCall("exitServiceMode", << a >>)
             \/ ServiceModeCall("sendServiceKeyCode", << a >>)
  BY <1>3, ServiceModeStep
<1>4. CASE \E cb \in Callbacks : GetMute(cb)
  BY <1>4, GetMuteStep
<1>5. CASE InvokeOemRequestHookRaw
  BY <1>5, RawRequestStep
<1>6. CASE Return
  BY <1>6, ReturnStep
<1>7. CASE ServiceTakes
  BY <1>7, ServiceTakesStep
<1>8. CASE ServiceGone
  BY <1>8, ServiceGoneStep
<1>9. CASE RildTakes
  BY <1>9, RildTakesStep
<1>10. CASE RadioBack
  BY <1>10, RadioBackStep
<1>11. CASE RadioOff
  BY <1>11, RadioOffStep
<1>12. CASE ModemObeys
  BY <1>12, ModemObeysStep
<1>13. CASE ModemFails
  BY <1>13, ModemFailsStep
<1>14. CASE PhoneStarts
  BY <1>14, PhoneStartsStep
<1>15. CASE PhoneDies
  BY <1>15, PhoneDiesStep
<1>16. CASE UNCHANGED secrilVars
  BY <1>16, SettingStutter
<1> QED BY <1>1, <1>2, <1>3, <1>4, <1>5, <1>6, <1>7, <1>8, <1>9, <1>10, <1>11, <1>12, <1>13,
           <1>14, <1>15, <1>16 DEF SecrilNext

\* The invariant of the way of a setting holds of every behaviour.
THEOREM SettingsInvariance == SecrilSpec => []SettingInv
BY SettingInit, SettingNext, PTL DEF SecrilSpec

\* For any users, arguments and number of calls, outages and deaths of the phone
\* process: when a setter of client.cpp has returned success the modem has the
\* values that the client gave, and nothing under way will replace them.
THEOREM SuccessIsSet == SecrilSpec => []SuccessMeansSet
<1>1. SettingInv => SuccessMeansSet
  <2> SUFFICES ASSUME SettingInv, call = Null, last.method \in Setters, last.status = "SUCCESS",
                      ~ (last.method = "setCallVolume" /\ last.arguments[1] = Len(DeviceMap))
               PROVE  /\ modem.message[1] = MessageOf(last.method)
                      /\ Tail(modem.message) \in Meant(last.method, last.arguments)
    BY DEF SuccessMeansSet
  <2>1. Carries(last.method, last.arguments, modem.message)
    BY DEF SettingInv, DoneInv, InForce
  <2>2. NameOf(last.method) = MessageOf(last.method)
    BY SetterNames
  <2> QED BY <2>1, <2>2 DEF Carries, PastTable
<1> QED BY <1>1, SettingsInvariance, PTL

\* Only the modem's own step changes what it carries out.
LEMMA OnlyObedience ==
    ASSUME SecrilNext, modem' # modem
    PROVE  ModemObeys
<1>1. SUFFICES ASSUME ~ ModemObeys PROVE modem' = modem
  OBVIOUS
<1>2. \A method, a : Setter(method, a) => modem' = modem
  BY DEF Setter, Transact, Refused
<1>3. \A method, a : ServiceModeCall(method, a) => modem' = modem
  BY DEF ServiceModeCall, Transact
<1>4. \A a : \/ SetLoopbackTest(a, Other(a)) \/ SetDhaSolution(a, Other(a), Extra)
             \/ SetTwoMicControl(a, Other(a))
             \/ SetCallAudioPath(a, Other(a)) \/ SetCallVolume(a, Other(a))
             \/ SetMute(a) \/ SetCallRecord(a) \/ SetCallClockSync(a)
             \/ SetVideoCallClockSync(a)
             => modem' = modem
  BY <1>2 DEF SetLoopbackTest, SetDhaSolution, SetTwoMicControl, SetCallAudioPath, SetCallVolume,
              SetMute, SetCallRecord, SetCallClockSync, SetVideoCallClockSync
<1>5. Connect \/ Disconnect \/ CloseClient \/ IsConnected => modem' = modem
  BY DEF Connect, Disconnect, CloseClient, IsConnected, Returned
<1>6. \A cb : RegisterRequestCompleteHandler(cb) \/ GetMute(cb) => modem' = modem
  BY DEF RegisterRequestCompleteHandler, Returned, GetMute, Transact, Refused
<1>7. InvokeOemRequestHookRaw => modem' = modem
  BY DEF InvokeOemRequestHookRaw, Transact, Refused
<1>8. Return \/ ServiceTakes \/ ServiceGone \/ ModemFails => modem' = modem
  BY DEF Return, ServiceTakes, ServiceGone, ModemFails
<1>9. RildTakes \/ RadioBack \/ RadioOff \/ PhoneStarts \/ PhoneDies => modem' = modem
  BY DEF RildTakes, RadioBack, RadioOff, PhoneStarts, PhoneDies
<1> QED BY <1>1, <1>3, <1>4, <1>5, <1>6, <1>7, <1>8, <1>9 DEF SecrilNext

\* For any users, arguments and number of calls: the modem carries out a message
\* only for a user whom hasPermission or ensureSafe let through for the method
\* that the message belongs to.
THEOREM OnlyAllowedReach == SecrilSpec => OnlyAllowedUsers
<1> DEFINE Allowed ==
             modem' # modem =>
               uid \in IF modem'.message[1] \in {MessageOf(method) : method \in ServiceModeMethods}
                       THEN {"root", "system", "signed"}
                       ELSE {"root", "phone", "media"}
<1>1. SettingInv /\ [SecrilNext]_secrilVars => [Allowed]_secrilVars
  <2> SUFFICES ASSUME SettingInv, SecrilNext, modem' # modem PROVE Allowed
    OBVIOUS
  <2>1. ModemObeys
    BY OnlyObedience
  <2>2. executing # Null /\ executing.message[1] # "SndGetMicMute"
    BY <2>1 DEF ModemObeys
  <2>3. modem'.message = executing.message
    BY <2>1, <2>2, Obeyed
  <2>4. PICK method \in Methods \ {"samsungOemRequest"} :
           /\ Permitted(uid, method)
           /\ executing.message[1] = NameOf(method)
    BY <2>2 DEF SettingInv, RequestInv
  <2>5. method # "getMute" /\ modem'.message[1] = MessageOf(method)
    BY <2>2, <2>3, <2>4 DEF NameOf
  <2>6. CASE method \in ServiceModeMethods
    <3>1. modem'.message[1] \in {MessageOf(m) : m \in ServiceModeMethods}
      BY <2>5, <2>6
    <3>2. HoldsCallPhoneService(uid)
      BY <2>4, <2>6 DEF Permitted, ServiceModeMethods, AudioMethods
    <3> QED BY <3>1, <3>2 DEF HoldsCallPhoneService
  <2>7. CASE method \in AudioMethods
    <3>1. MessageOf(method) \notin {"SvcEnterServiceMode", "SvcExitServiceMode",
                                    "SvcProcessKeyCode"}
      BY <2>5, <2>7 DEF MessageOf, AudioMethods
    <3>2. \A m \in ServiceModeMethods :
             MessageOf(m) \in {"SvcEnterServiceMode", "SvcExitServiceMode", "SvcProcessKeyCode"}
      BY DEF MessageOf, ServiceModeMethods
    <3>3. modem'.message[1] \notin {MessageOf(m) : m \in ServiceModeMethods}
      BY <2>5, <3>1, <3>2
    <3>4. "CALL_AUDIO" \in CallerPermissions(uid)
      BY <2>4, <2>7 DEF Permitted
    <3>5. uid \in {"root", "phone", "media"}
      BY <3>4 DEF CallerPermissions
    <3> QED BY <3>3, <3>5
  <2> QED BY <2>4, <2>6, <2>7 DEF Methods
<1> QED BY <1>1, SettingsInvariance, PTL DEF SecrilSpec, OnlyAllowedUsers
=============================================================================
