----------------------------- MODULE OemService -----------------------------
(***************************************************************************)
(* The Java service that runs in the phone process: its life               *)
(* (I9100OemService), and the way of the modem's service mode screens to   *)
(* the event handlers that other programs have registered                  *)
(* (RequestHandler's handler of SvcDisplayScreen, OemUnsolicitedBuilder,   *)
(* RilInterface.onOemUnsolicited, PhoneService).                           *)
(*                                                                         *)
(* The main thread runs the service's life cycle and the events.  While it *)
(* delivers one it holds the monitor of mEventHandlers, calls each handler *)
(* and waits for it; a handler may call back into the service, which then  *)
(* runs on the main thread itself and passes the monitor, or it may die.   *)
(* Binder threads register and unregister handlers and hear of deaths;     *)
(* they hold the monitor only within one step, so that it is free exactly  *)
(* when nothing is being delivered.                                        *)
(***************************************************************************)
EXTENDS Integers, Sequences, FiniteSets, SequencesExt

CONSTANTS
    Handlers,    \* event handlers of other programs, each in its own process
    Holders,     \* those whose program holds CALL_PHONE_SERVICE
    MaxRecords,  \* bound: registrations during a behaviour
    MaxEvents,   \* bound: screens the modem sends
    None         \* no delivery, no record

\* A delivery in progress: the iterator (its cursor, and whether the list was
\* changed since it was made), the record whose handler is being called, and as
\* ghosts the list at the start and the records whose handlers were called.
Deliveries == [cursor : Nat, current : Nat \cup {None}, changed : BOOLEAN,
               start : Seq(Nat), visited : Seq(Nat)]

ASSUME ConstantsAssumption ==
    /\ Holders \subseteq Handlers
    /\ MaxRecords \in Nat /\ MaxEvents \in Nat
    /\ None \notin Nat /\ None \notin Deliveries

Records == 1 .. MaxRecords

VARIABLES
    phase,      \* of the service
    registered, \* external: the service manager knows PhoneService
    handlers,   \* mEventHandlers: the records, in order
    owner,      \* the handler of each record made so far
    adding,     \* records that are linked to death but not in the list yet
    alive,      \* external: handlers whose process lives
    deaths,     \* records whose death notice is on its way
    late,       \* ghost: records added after their death notice had come
    events,     \* events in the main thread's queue
    sent,       \* external: number of screens so far
    delivery    \* the delivery in progress, or None

serviceVars == << phase, registered >>
listVars == << handlers, owner, adding, deaths, late >>
eventVars == << events, sent, delivery >>
vars == << serviceVars, listVars, alive, eventVars >>

Init ==
    /\ phase = "created"
    /\ registered = FALSE
    /\ handlers = << >>
    /\ owner = << >>
    /\ adding = {}
    /\ alive = Handlers
    /\ deaths = {}
    /\ late = {}
    /\ events = << >>
    /\ sent = 0
    /\ delivery = None

MonitorFree == delivery = None
MainIdle == delivery = None /\ phase # "joining"

-----------------------------------------------------------------------------
(* The life of the service, on the main thread.                            *)

\* onStartCommand: binds to RegistrationService, in the system's process.
OnStartCommand ==
    /\ MainIdle /\ phase = "created"
    /\ phase' = "binding"
    /\ UNCHANGED << registered, listVars, alive, eventVars >>

\* onServiceConnected and registerServices: two calls, CrossClientService
\* first; either may fail, and the service stops itself.
RegisterServices ==
    /\ MainIdle /\ phase = "binding"
    /\ \/ phase' = "running" /\ registered' = TRUE
       \/ phase' = "stopping" /\ UNCHANGED registered
    /\ UNCHANGED << listVars, alive, eventVars >>

\* onServiceDisconnected: the other process has crashed.  After unbindService
\* it is not called any more.
ServiceRegistrationFailed ==
    /\ MainIdle /\ phase = "binding"
    /\ phase' = "stopping"
    /\ UNCHANGED << registered, listVars, alive, eventVars >>

\* onDestroy: the receiver is taken away, and dispose() interrupts the
\* completion thread and joins it.  A HandlerThread that waits for messages
\* does not end at an interrupt, so that the main thread stays in join(); the
\* rest of dispose(), which detaches from the RIL, is never reached.
OnDestroy ==
    /\ MainIdle /\ phase \in {"stopping", "running"}
    /\ phase' = "joining"
    /\ UNCHANGED << registered, listVars, alive, eventVars >>

-----------------------------------------------------------------------------
(* PhoneService: the list of handlers.                                     *)

Of(h) == {r \in DOMAIN owner : owner[r] = h}

\* ensureSafe.  The caller is the program whose call is being handled; code of
\* the phone process itself, which handles no call, is refused like a program
\* without the permission: SecurityException, and nothing has changed.
MayCall(h) == h \in alive /\ h \in Holders

\* A handler arrives as a new proxy object with every call that passes it; a
\* record is named by the proxy it holds.
NewProxy == Len(owner) + 1

\* registerEventHandler up to the monitor: linkToDeath.  A call from a process
\* that is dead by then returns and leaves nothing.
RegisterLink(h) ==
    /\ registered /\ MayCall(h)
    /\ NewProxy <= MaxRecords
    /\ owner' = Append(owner, h)
    /\ adding' = adding \cup {NewProxy}
    /\ UNCHANGED << serviceVars, handlers, deaths, late, alive, eventVars >>

\* ... and the addition to the list.
RegisterAdd(r) ==
    /\ r \in adding
    /\ MonitorFree
    /\ handlers' = Append(handlers, r)
    /\ adding' = adding \ {r}
    /\ UNCHANGED << serviceVars, owner, deaths, late, alive, eventVars >>

\* ArrayList.remove; a record is in the list once at most.
Without(list, r) ==
    IF r \in Range(list) THEN RemoveAt(list, CHOOSE k \in DOMAIN list : list[k] = r)
    ELSE list

\* The list after unregisterEventHandler: without the record that holds the
\* very object it was given.  That is the proxy made for this call, and no
\* record has it.
Unregistered == Without(handlers, NewProxy)

\* unregisterEventHandler, on a Binder thread.
Unregister(h) ==
    /\ registered /\ MayCall(h)
    /\ MonitorFree
    /\ handlers' = Unregistered
    /\ UNCHANGED << serviceVars, owner, adding, deaths, late, alive, eventVars >>

\* As a bug would have it: the notice only unlinks.
BinderDiedKeepsRecord(r) ==
    /\ r \in deaths
    /\ MonitorFree
    /\ deaths' = deaths \ {r}
    /\ UNCHANGED << serviceVars, handlers, owner, adding, late, alive, eventVars >>

\* As a bug would have it: the first record of the list is removed.
BinderDiedRemovesFirst(r) ==
    /\ r \in deaths
    /\ MonitorFree
    /\ deaths' = deaths \ {r}
    /\ handlers' = IF handlers = << >> THEN handlers ELSE Tail(handlers)
    /\ late' = IF r \in adding THEN late \cup {r} ELSE late
    /\ UNCHANGED << serviceVars, owner, adding, alive, eventVars >>

\* binderDied and removeSelf, on a Binder thread: the record may not be in the
\* list yet.
BinderDied(r) ==
    /\ r \in deaths
    /\ MonitorFree
    /\ deaths' = deaths \ {r}
    /\ handlers' = Without(handlers, r)
    /\ late' = IF r \in adding THEN late \cup {r} ELSE late
    /\ UNCHANGED << serviceVars, owner, adding, alive, eventVars >>

\* A process dies (external); a notice goes to each linked record.
Die(h) ==
    /\ h \in alive
    /\ alive' = alive \ {h}
    /\ deaths' = deaths \cup (Of(h) \cap (adding \cup Range(handlers)))
    /\ UNCHANGED << serviceVars, handlers, owner, adding, late, eventVars >>

-----------------------------------------------------------------------------
(* Events: from the modem's screens to the handlers.                       *)

\* OemUnsolicitedBuilder: the event goes to Android and from there to the main
\* thread's queue.
Notify(event) == events' = Append(events, event)

\* handle(SvcDisplayScreen *) in the RIL: an empty screen ends service mode, a
\* placeholder line is dropped.
HandleSvcDisplayScreen(screen) ==
    /\ sent < MaxEvents
    /\ sent' = sent + 1
    /\ CASE screen = "empty" -> Notify("serviceCompleted")
         [] screen = "placeholder" -> UNCHANGED events
         [] screen = "lines" -> Notify("serviceDisplay")
    /\ UNCHANGED << serviceVars, listVars, alive, delivery >>

\* onOemUnsolicited, serviceCompleted, serviceDisplay: the monitor is taken and
\* an iterator made.
TakeEvent ==
    /\ MainIdle /\ events # << >>
    /\ events' = Tail(events)
    /\ delivery' = [cursor |-> 0, current |-> None, changed |-> FALSE,
                    start |-> handlers, visited |-> << >>]
    /\ UNCHANGED << serviceVars, listVars, alive, sent >>

\* The delivery is over, by the end of the loop or by an exception that
\* onOemUnsolicited catches.
Finish == delivery' = None /\ UNCHANGED << events, sent >>

\* As a bug would have it: a loop over positions, which sees the changes.
AdvanceByPosition ==
    IF delivery.cursor < Len(handlers)
    THEN /\ delivery' = [delivery EXCEPT !.cursor = @ + 1,
                                         !.current = handlers[delivery.cursor + 1],
                                         !.visited = Append(@, handlers[delivery.cursor + 1])]
         /\ UNCHANGED << events, sent >>
    ELSE Finish

\* it.hasNext() and it.next() of an ArrayList: the end is where the cursor
\* equals the size, and next() throws if the list was changed.  (This is OpenJDK's
\* iterator; that of the Android of the time ended by a count of what remained.
\* Once the list was changed both end the delivery here, by one way or the other.)
Advance ==
    CASE delivery.cursor = Len(handlers) -> Finish
      [] delivery.cursor # Len(handlers) /\ delivery.changed -> Finish
      [] OTHER ->
           LET record == handlers[delivery.cursor + 1]
           IN  /\ delivery' = [cursor |-> delivery.cursor + 1, current |-> record,
                               changed |-> FALSE, start |-> delivery.start,
                               visited |-> Append(delivery.visited, record)]
               /\ UNCHANGED << events, sent >>

NextHandler ==
    /\ delivery # None /\ delivery.current = None
    /\ Advance
    /\ UNCHANGED << serviceVars, listVars, alive >>

InCall == delivery # None /\ delivery.current # None
Callee == owner[delivery.current]

\* handleServiceCompleted or handleServiceDisplay returns.
HandlerReturns ==
    /\ InCall /\ Callee \in alive
    /\ delivery' = [delivery EXCEPT !.current = None]
    /\ UNCHANGED << serviceVars, listVars, alive, events, sent >>

\* The handler throws something other than RemoteException, which Binder
\* carries back: nobody catches it before onOemUnsolicited.
HandlerThrows ==
    /\ InCall /\ Callee \in alive
    /\ Finish
    /\ UNCHANGED << serviceVars, listVars, alive >>

\* As a bug would have it: the call is tried again.
HandlerDeadRetries ==
    /\ InCall /\ Callee \notin alive
    /\ UNCHANGED vars

\* The handler's process is dead: RemoteException, removeSelf.
HandlerDead ==
    /\ InCall /\ Callee \notin alive
    /\ handlers' = Without(handlers, delivery.current)
    /\ delivery' = [cursor |-> delivery.cursor, current |-> None,
                    changed |-> delivery.changed \/ handlers' # handlers,
                    start |-> delivery.start, visited |-> delivery.visited]
    /\ UNCHANGED << serviceVars, owner, adding, deaths, late, alive,
                    events, sent >>

\* The handler registers from within the call: its call runs on the main thread.
NestedRegister ==
    /\ InCall /\ registered /\ MayCall(Callee)
    /\ NewProxy <= MaxRecords
    /\ owner' = Append(owner, Callee)
    /\ handlers' = Append(handlers, NewProxy)
    /\ delivery' = [delivery EXCEPT !.changed = TRUE]
    /\ UNCHANGED << serviceVars, adding, deaths, late, alive, events, sent >>

\* The handler unregisters from within the call.
NestedUnregister ==
    /\ InCall /\ registered /\ MayCall(Callee)
    /\ handlers' = Unregistered
    /\ delivery' = [delivery EXCEPT !.changed = @ \/ handlers' # handlers]
    /\ UNCHANGED << serviceVars, owner, adding, deaths, late, alive, events, sent >>

-----------------------------------------------------------------------------
Next ==
    \/ OnStartCommand \/ RegisterServices \/ ServiceRegistrationFailed \/ OnDestroy
    \/ \E h \in Handlers : RegisterLink(h) \/ Unregister(h) \/ Die(h)
    \/ \E r \in Records : RegisterAdd(r) \/ BinderDied(r)
    \/ \E screen \in {"empty", "placeholder", "lines"} : HandleSvcDisplayScreen(screen)
    \/ TakeEvent \/ NextHandler
    \/ HandlerReturns \/ HandlerThrows \/ HandlerDead
    \/ NestedRegister \/ NestedUnregister

\* The main thread and the Binder threads run on; a handler that is called
\* returns, as long as its process lives.
Fairness ==
    /\ WF_vars(TakeEvent) /\ WF_vars(NextHandler)
    /\ WF_vars(HandlerReturns) /\ WF_vars(HandlerDead)
    /\ \A r \in Records : WF_vars(RegisterAdd(r)) /\ WF_vars(BinderDied(r))

Spec == Init /\ [][Next]_vars /\ Fairness

-----------------------------------------------------------------------------
\* An event goes to the handlers that were registered when its delivery began,
\* in their order, each once, and to all of them unless the list was changed
\* meanwhile (by a handler that calls back, or by the removal of a dead one)
\* or a handler threw while it was called: then the rest of the list may miss
\* the event.
EveryHandlerCalled ==
    [][delivery # None /\ delivery' = None =>
         /\ IsPrefix(delivery.visited, delivery.start)
         /\ \/ delivery.visited = delivery.start
            \/ delivery.changed
            \/ delivery.current # None]_vars

\* A record leaves mEventHandlers only when the process of its handler is dead:
\* neither the death notice of another, whenever it comes, nor a handler that
\* throws, dies or calls back during a delivery takes it out.  So it is, too, that
\* unregisterEventHandler removes nothing.
OnlyDeathEnds ==
    [][\A r \in Range(handlers) : r \in Range(handlers') \/ owner[r] \notin alive]_vars

\* The record of a handler whose process dies leaves the list, by the death
\* notice or at the next event, unless the notice came between linkToDeath and
\* the addition: such a record stays until an event finds it dead.
DeadHandlersLeave ==
    \A r \in Records :
        (r \in Range(handlers) /\ owner[r] \notin alive /\ r \notin late)
            ~> r \notin Range(handlers)

\* Every event is delivered: neither a death during a call nor a handler that
\* calls back stops the main thread, unless the service is destroyed.
EveryEventDelivered ==
    (events # << >> \/ delivery # None)
        ~> ((events = << >> /\ delivery = None) \/ phase = "joining")
=============================================================================
