----------------------------- MODULE FaultChain -----------------------------
(***************************************************************************)
(* The fault handler: who gets a SIGSEGV or a SIGBUS.  FaultHandler        *)
(* installs signalHandler, the compressor's tick re-installs it when the   *)
(* application has replaced it (ensureInstalled), stop() takes it away,    *)
(* and a fault that is not smash's is passed to the previous handler.      *)
(*                                                                         *)
(* An access touches a page that smash has closed, which the callback      *)
(* reopens, or is wild; a signal can also be raised.  The callback may     *)
(* itself touch one more closed page (a prefetch), and a broken one faults *)
(* again and again.  Frames of nested handlers are a stack per thread.     *)
(***************************************************************************)
EXTENDS Integers, Sequences, FiniteSets, SequencesExt

CONSTANTS
  Threads,
  Original,    \* the disposition that smash finds: default, ignore or app
  PageSignal,  \* the signal of an access to a closed page
  Reclaims,    \* the signals that ensureInstalled looks at and takes back
  Accesses,    \* what threads do: a subset of {"touch", "wild", "raise"}
  Installed,   \* what the application installs later: a set of dispositions
  Mach,        \* SMASH_USE_MACH_EXCEPTIONS: a listener instead of signals
  DepthGuarded,\* the nesting guard of the Linux build
  Nested,      \* bound: how deep the callback's own faults go
  MayStop,
  MaxFrames    \* bound: nested handler frames

Signals == {"SEGV", "BUS"}
kMaxFaultDepth == 2

(* default kills; ignore drops a raised signal; app recovers from a wild   *)
(* fault and drops a raised one, but dies on a fault in smash's memory;    *)
(* chain calls the handler that was installed before it.                   *)
Dispositions == {"smash", "default", "ignore", "app", "chain"}

VARIABLES
  disp,        \* per signal: the installed disposition
  old,         \* old_sigsegv_, old_sigbus_
  running, instance, shuttingDown,
  stack,       \* per thread: its handler frames, the innermost last
  depth,       \* faultDepth()
  status,      \* "up", or why the process died
  tick, stale, \* ensureInstalled: its place, what it has read
  stopper      \* stop(): its place

handler == <<disp, old, running, instance, shuttingDown>>
vars == <<handler, stack, depth, status, tick, stale, stopper>>

Causes == {"touch", "wild", "raise", "null"}
Frame(sig, cause) == [sig |-> sig, cause |-> cause, at |-> "entry"]

TypeOK ==
  /\ disp \in [Signals -> Dispositions] /\ old \in [Signals -> Dispositions]
  /\ running \in BOOLEAN /\ instance \in BOOLEAN /\ shuttingDown \in BOOLEAN
  /\ depth \in [Threads -> 0..kMaxFaultDepth]
  /\ status \in {"up"} \cup Causes
  /\ tick \in {"idle", "flag", "read", "install"}
  /\ stopper \in {"idle", "restored", "done"}

\* start() has run: both signals are smash's, or a port takes the exceptions.
Init ==
  /\ disp = [s \in Signals |-> IF Mach THEN Original ELSE "smash"]
  /\ old = [s \in Signals |-> Original]
  /\ running = TRUE /\ instance = TRUE /\ shuttingDown = FALSE
  /\ stack = [t \in Threads |-> << >>] /\ depth = [t \in Threads |-> 0]
  /\ status = "up" /\ tick = "idle" /\ stale = FALSE /\ stopper = "idle"

Up == status = "up"
Room(t) == Len(stack[t]) < MaxFrames
Top(t) == Last(stack[t])
Pushed(t, f) == stack' = [stack EXCEPT ![t] = Append(@, f)]
Popped(t) == stack' = [stack EXCEPT ![t] = Front(@)]
Moved(t, place) == stack' = [stack EXCEPT ![t][Len(stack[t])].at = place]

\* The kernel delivers a signal to the disposition h.  An application handler
\* that returns from a raised signal, or jumps out of a wild fault, is gone.
Deliver(t, h, sig, cause) ==
  CASE h = "smash" -> Pushed(t, Frame(sig, cause)) /\ UNCHANGED status
    [] h = "default" \/ (h = "ignore" /\ cause # "raise") ->
         status' = cause /\ UNCHANGED stack
    [] h = "ignore" -> UNCHANGED <<status, stack>>
    [] h = "app" -> /\ status' = IF cause \in {"touch", "null"} THEN cause ELSE status
                    /\ UNCHANGED stack
    [] h = "chain" -> /\ Pushed(t, [Frame(sig, cause) EXCEPT !.at = "appChain"])
                      /\ UNCHANGED status

\* An access of the program, outside any handler.  stop() finds no page closed.
Access(t, cause) ==
  /\ Up /\ stack[t] = << >> /\ Room(t)
  /\ cause = "touch" => stopper = "idle"
  /\ \E sig \in IF cause = "touch" THEN {PageSignal} ELSE Signals :
        IF Mach /\ cause # "raise"
        THEN Pushed(t, [Frame(sig, cause) EXCEPT !.at = "port"]) /\ UNCHANGED status
        ELSE Deliver(t, disp[sig], sig, cause)
  /\ UNCHANGED <<handler, depth, tick, stale, stopper>>

\* machHandlerThreadEntry: the listener resumes a thread whose page the callback
\* reopened, and leaves any other fault to the POSIX disposition.
MachReply(t) ==
  /\ Up /\ stack[t] # << >> /\ Top(t).at = "port"
  /\ Popped(t)
  /\ status' = IF Top(t).cause = "touch" \/ disp[Top(t).sig] = "app" THEN status
               ELSE Top(t).cause
  /\ UNCHANGED <<handler, depth, tick, stale, stopper>>

\* The application installs a handler of its own over the present one.
AppInstalls(sig, h) ==
  /\ Up /\ h \in Installed /\ disp[sig] = "smash"
  /\ disp' = [disp EXCEPT ![sig] = h]
  /\ UNCHANGED <<old, running, instance, shuttingDown, stack, depth, status, tick,
                 stale, stopper>>

-----------------------------------------------------------------------------
(* signalHandler                                                           *)

\* The guard refuses the one nested fault that must be served.
DepthOkMutant(t) == DepthGuarded => depth[t] + 1 < kMaxFaultDepth

DepthOk(t) == DepthGuarded => depth[t] < kMaxFaultDepth

\* A kernel fault goes to the callback while the depth allows it.
Enter(t) ==
  /\ Up /\ stack[t] # << >> /\ Top(t).at = "entry"
  /\ IF Top(t).cause # "raise" /\ instance /\ DepthOk(t)
     THEN /\ depth' = [depth EXCEPT ![t] = @ + 1]
          /\ Moved(t, "callback")
     ELSE Moved(t, "chain") /\ UNCHANGED depth
  /\ UNCHANGED <<handler, status, tick, stale, stopper>>

\* The callback reopens a closed page, and may meet another one first.
Callback(t) ==
  /\ Up /\ stack[t] # << >> /\ Top(t).at \in {"callback", "resumed"}
  /\ \/ /\ Top(t).at = "callback" /\ Room(t) /\ Len(stack[t]) <= Nested
        /\ Len(stack[t]) = 1 => Top(t).cause = "touch"
        /\ stack' = [stack EXCEPT ![t] =
             Append([@ EXCEPT ![Len(stack[t])].at = "nested"],
                    Frame(PageSignal, IF Len(@) = 1 THEN "touch" ELSE "wild"))]
        /\ UNCHANGED depth
     \/ /\ Top(t).cause = "touch"
        /\ Popped(t)
        /\ depth' = [depth EXCEPT ![t] = @ - 1]
     \/ /\ Top(t).cause # "touch"
        /\ Moved(t, "chain")
        /\ depth' = [depth EXCEPT ![t] = @ - 1]
  /\ UNCHANGED <<handler, status, tick, stale, stopper>>

\* After the nested fault the callback goes on.
CallbackResumes(t) ==
  /\ Up /\ stack[t] # << >> /\ Top(t).at = "nested"
  /\ Moved(t, "resumed")
  /\ UNCHANGED <<handler, depth, status, tick, stale, stopper>>

\* The previous disposition: without an instance it cannot be read.  A raised
\* signal, and a fault whose old disposition is the default or to ignore it,
\* put a disposition back and raise the signal again.
Chain(t) ==
  LET f == Top(t)
      h == old[f.sig]
      again == f.cause = "raise" \/ h \in {"default", "ignore"}
  IN /\ Up /\ stack[t] # << >> /\ f.at = "chain"
     /\ \/ /\ ~instance
           /\ status' = IF f.cause = "touch" THEN "touch" ELSE "null"
           /\ UNCHANGED <<disp, shuttingDown, stack>>
        \/ /\ instance /\ again
           /\ shuttingDown' = TRUE
           /\ Moved(t, "restore")
           /\ UNCHANGED <<disp, status>>
        \/ /\ instance /\ ~again
           /\ IF h \in {"smash", "chain"} THEN Room(t) ELSE TRUE
           /\ IF h = "app"
              THEN /\ status' = IF f.cause = "wild" THEN status ELSE f.cause
                   /\ stack' = [stack EXCEPT ![t] = << >>]
              ELSE /\ Pushed(t, IF h = "smash" THEN Frame(f.sig, f.cause)
                                 ELSE [f EXCEPT !.at = "appChain"])
                   /\ UNCHANGED status
           /\ UNCHANGED <<disp, shuttingDown>>
     /\ UNCHANGED <<old, running, instance, depth, tick, stale, stopper>>

\* sigaction(sig, old) -- SIG_DFL for an ignored fault ...
Restore(t) ==
  LET f == Top(t)
      h == IF f.cause # "raise" /\ old[f.sig] = "ignore" THEN "default" ELSE old[f.sig]
  IN /\ Up /\ stack[t] # << >> /\ f.at = "restore"
     /\ disp' = [disp EXCEPT ![f.sig] = h]
     /\ Moved(t, "raise")
     /\ UNCHANGED <<old, running, instance, shuttingDown, depth, status, tick,
                    stale, stopper>>

\* ... and raise(sig): the handler returns once the signal is delivered.
Reraise(t) ==
  LET f == Top(t)
      below == Front(stack[t])
  IN /\ Up /\ stack[t] # << >> /\ f.at = "raise"
     /\ IF disp[f.sig] = "default" THEN status' = f.cause /\ UNCHANGED stack
        ELSE /\ stack' = [stack EXCEPT ![t] =
                  IF disp[f.sig] = "smash" THEN Append(below, Frame(f.sig, "raise"))
                  ELSE below]
             /\ UNCHANGED status
     /\ UNCHANGED <<handler, depth, tick, stale, stopper>>

\* The chaining application handler calls what it replaced: smash's.
AppChain(t) ==
  /\ Up /\ stack[t] # << >> /\ Top(t).at = "appChain"
  /\ Moved(t, "entry")
  /\ UNCHANGED <<handler, depth, status, tick, stale, stopper>>

-----------------------------------------------------------------------------
(* ensureInstalled, from the compressor's tick                             *)

TickChecks ==
  /\ Up
  /\ \/ tick = "idle" /\ running /\ ~Mach /\ tick' = "flag" /\ UNCHANGED stale
     \/ /\ tick = "flag"
        /\ tick' = IF shuttingDown THEN "idle" ELSE "read"
        /\ UNCHANGED stale
     \/ /\ tick = "read"
        /\ stale' = \E s \in Reclaims : disp[s] # "smash"
        /\ tick' = IF stale' THEN "install" ELSE "idle"
  /\ UNCHANGED <<handler, stack, depth, status, stopper>>

Reinstall ==
  /\ Up /\ tick = "install"
  /\ old' = [s \in Signals |-> IF s \in Reclaims THEN disp[s] ELSE old[s]]
  /\ disp' = [s \in Signals |-> IF s \in Reclaims THEN "smash" ELSE disp[s]]
  /\ tick' = "idle" /\ stale' = FALSE
  /\ UNCHANGED <<running, instance, shuttingDown, stack, depth, status, stopper>>

\* stop(), after the compressor's threads are joined and the pages drained.
Stop ==
  /\ Up /\ MayStop /\ tick = "idle"
  /\ \/ /\ stopper = "idle"
        /\ disp' = IF Mach THEN disp ELSE old
        /\ running' = FALSE
        /\ stopper' = "restored"
        /\ UNCHANGED instance
     \/ /\ stopper = "restored"
        /\ instance' = FALSE
        /\ stopper' = "done"
        /\ UNCHANGED <<disp, running>>
  /\ UNCHANGED <<old, shuttingDown, stack, depth, status, tick, stale>>

HandlerStep(t) ==
  \/ Enter(t) \/ Callback(t) \/ CallbackResumes(t) \/ Chain(t) \/ Restore(t)
  \/ Reraise(t) \/ AppChain(t) \/ MachReply(t)

TickStep == TickChecks \/ Reinstall

Next ==
  \/ \E t \in Threads : HandlerStep(t) \/ \E c \in Accesses : Access(t, c)
  \/ \E s \in Signals, h \in Installed : AppInstalls(s, h)
  \/ TickStep \/ Stop

Spec == Init /\ [][Next]_vars

FairSpec ==
  Spec /\ WF_vars(TickStep) /\ \A t \in Threads : WF_vars(HandlerStep(t))

-----------------------------------------------------------------------------

\* Another thread is ending the process with a signal of its own.
Ending ==
  \E t \in Threads :
    stack[t] # << >> /\ Top(t).at = "raise" /\ Top(t).cause # "touch"

\* An access to memory that smash has closed ends the process only if a handler
\* that does not chain stands in the place of smash's: however the callback
\* itself faults once and whatever chains to what.  Then one of three things has
\* happened: the application has installed that handler since the last tick; or
\* a signal was passed on, for which shutting_down_ stays set and the handler is
\* not taken back even when the process survives (fault_handler.h:267-273, 533);
\* or stop() has taken the instance away under a thread that was already in the
\* handler.  With nothing but the default disposition around, only a process
\* that another thread is already ending dies of such an access.
SmashFaultFatalWhenDisplaced ==
  status = "touch" =>
    /\ \/ disp[PageSignal] \in Installed \ {"chain"}
       \/ shuttingDown /\ disp[PageSignal] # "smash"
       \/ ~instance
    /\ Original = "default" /\ Installed = {} /\ ~MayStop => Ending

\* The previous handler of a signal is not smash's own, to which an unhandled
\* fault would be passed without end.  Where ensureInstalled takes back two
\* signals when one is replaced (macOS with deferred reclaim), it saves smash's
\* handler as the predecessor of the other (fault_handler.h:542-558); then this
\* holds of one of the two only, until a signal is passed on.
NeverChainsToItself ==
  IF Cardinality(Reclaims) = 1 \/ Mach
  THEN \A s \in Signals : old[s] # "smash"
  ELSE shuttingDown \/ \E s \in Signals : old[s] # "smash"

\* The handlers stay in order.  None is its own predecessor, but for the case
\* above; stop() leaves no signal with smash's handler, whose instance is gone,
\* that had another before, although the tick re-installs it; and where no
\* handler of the application chains back, a callback that faults every time
\* ends after kMaxFaultDepth frames, the count that sees to it being the number
\* of callbacks the thread is in (faultDepth).
HandlersSound ==
  /\ NeverChainsToItself
  /\ stopper # "idle" => \A s \in Signals : disp[s] = "smash" => old[s] = "smash"
  /\ Installed = {} => \A t \in Threads :
       /\ Len(stack[t]) <= kMaxFaultDepth + 1
       /\ depth[t] = Len(SelectSeq(stack[t],
                         LAMBDA f : f.at \in {"callback", "nested", "resumed"}))

\* A handler of the application stands where the tick looks.
Displaced ==
  Up /\ running /\ ~shuttingDown /\ \E s \in Reclaims : disp[s] # "smash"

\* A handler that the application installed over smash's is displaced again by a
\* later tick, unless a signal was passed on or smash is stopped.
HandlerReclaimed == ~Mach => (Displaced ~> ~Displaced)

InHandler(t) == stack[t] # << >> /\ Up

\* A handler that was entered is left, by the thread or by the process: a signal
\* that the program raises on itself takes its previous disposition although the
\* tick re-installs the handler meanwhile (shutting_down_).
HandlerLeft == \A t \in Threads : InHandler(t) ~> ~InHandler(t)

=============================================================================
