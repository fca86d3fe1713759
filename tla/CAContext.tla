----------------------------- MODULE CAContext -----------------------------
(***************************************************************************)
(* The private CA client context (CAContext in collect_ca.cpp): a thread is *)
(* attached to one context of libca at most, and to create, destroy or use  *)
(* ours it gives up, for a while, the one it has.                           *)
(*                                                                         *)
(* call[t] is the operation that thread t is in, with its local variables.  *)
(* libca does not attach a thread that is attached, with an error that the  *)
(* code does not look at, and destroys the context the caller is attached   *)
(* to.                                                                      *)
(***************************************************************************)
CONSTANTS
  Thread,
  Foreign    \* the contexts of other parts of the program

ASSUME ContextAssumption == {"none", "bsas"} \cap Foreign = {}

VARIABLES
  attached,  \* [Thread -> the context of the thread]
  priority,  \* [Thread -> its priority]
  alive,     \* the contexts of libca
  context,   \* CAContext::context
  call,
  home       \* history: what the threads are attached to between operations

libVars == <<attached, priority, alive>>
caVars == <<libVars, context, call, home>>

NoCall == [pc |-> "none", previous |-> "none", prio |-> "own"]

CAInit ==
  /\ attached \in [Thread -> Foreign \cup {"none"}]
  /\ priority = [t \in Thread |-> "own"]
  /\ alive = Foreign
  /\ context = "none"
  /\ call = [t \in Thread |-> NoCall]
  /\ home = attached

In(t, pc) == call[t].pc = pc

Goto(t, pc) == call' = [call EXCEPT ![t].pc = pc]

(* ca_current_context(), and ca_detach_context() if there is one *)
SaveAndLeave(t, pc) ==
  call' = [call EXCEPT ![t] = [pc |-> pc, previous |-> attached[t],
                               prio |-> priority[t]]]

(* What ca_attach_context(c) leaves a thread attached to that had a. *)
Attached(a, c) == IF a = "none" THEN c ELSE a

-----------------------------------------------------------------------------
(* CAContext::CAContext *)

ConstructBegins(t) ==
  /\ In(t, "none")
  /\ SaveAndLeave(t, "create")
  /\ attached' = [attached EXCEPT ![t] = "none"]
  /\ priority' = [priority EXCEPT ![t] = "medium"]
  /\ UNCHANGED <<alive, context, home>>

ContextCreated(t) ==
  /\ In(t, "create")
  /\ alive' = alive \cup {"bsas"}
  /\ attached' = [attached EXCEPT ![t] = Attached(@, "bsas")]
  /\ context' = attached'[t]
  /\ Goto(t, "handler")
  /\ UNCHANGED <<priority, home>>

HandlerAdded(t) ==
  /\ In(t, "handler")
  /\ attached' = [attached EXCEPT ![t] = "none"]
  /\ Goto(t, "restore")
  /\ UNCHANGED <<priority, alive, context, home>>

(* An error of ca_context_create or of ca_add_exception_event. *)
ConstructFails(t) ==
  /\ In(t, "create") \/ In(t, "handler")
  /\ Goto(t, "catch")
  /\ UNCHANGED <<libVars, context, home>>

(* A seeded fault: the context that was just made stays attached.           *)
CaughtAttached(t) ==
  /\ In(t, "catch")
  /\ attached' = [attached EXCEPT ![t] = Attached(@, call[t].previous)]
  /\ priority' = [priority EXCEPT ![t] = call[t].prio]
  /\ Goto(t, "raised")
  /\ UNCHANGED <<alive, context, home>>

(* catch(...): the context, if it was made, is left as it is. *)
Caught(t) ==
  /\ In(t, "catch")
  /\ attached' = [attached EXCEPT ![t] = call[t].previous]
  /\ priority' = [priority EXCEPT ![t] = call[t].prio]
  /\ Goto(t, "raised")
  /\ UNCHANGED <<alive, context, home>>

Constructed(t) ==
  /\ In(t, "restore")
  /\ attached' = [attached EXCEPT ![t] = Attached(@, call[t].previous)]
  /\ priority' = [priority EXCEPT ![t] = call[t].prio]
  /\ Goto(t, "none")
  /\ UNCHANGED <<alive, context, home>>

-----------------------------------------------------------------------------
(* CAContext::~CAContext *)

DestroyBegins(t) ==
  /\ In(t, "none")
  /\ context # "none"
  /\ SaveAndLeave(t, "destroy")
  /\ attached' = [attached EXCEPT ![t] = context]
  /\ UNCHANGED <<priority, alive, context, home>>

Destroyed(t) ==
  /\ In(t, "destroy")
  /\ alive' = alive \ {attached[t]}
  /\ attached' = [attached EXCEPT ![t] = "none"]
  /\ Goto(t, "reattach")
  /\ UNCHANGED <<priority, context, home>>

Reattached(t) ==
  /\ In(t, "reattach")
  /\ attached' = [attached EXCEPT ![t] = Attached(@, call[t].previous)]
  /\ Goto(t, "none")
  /\ UNCHANGED <<priority, alive, context, home>>

-----------------------------------------------------------------------------
(* CAContext::Attach: the scope in which a channel is created or cleared *)

AttachBegins(t) ==
  /\ In(t, "none")
  /\ context \in alive
  /\ SaveAndLeave(t, "scope")
  /\ attached' = [attached EXCEPT ![t] = context]
  /\ UNCHANGED <<priority, alive, context, home>>

AttachEnds(t) ==
  /\ In(t, "scope")
  /\ attached' = [attached EXCEPT ![t] = call[t].previous]
  /\ Goto(t, "none")
  /\ UNCHANGED <<priority, alive, context, home>>

-----------------------------------------------------------------------------
(* The steps inside the constructor and the destructor. *)
CAStep ==
  \E t \in Thread :
    \/ ContextCreated(t) \/ HandlerAdded(t) \/ ConstructFails(t)
    \/ Caught(t) \/ Constructed(t)
    \/ Destroyed(t) \/ Reattached(t)

(* Creating, using and destroying our context is invisible to the threads   *)
(* that do it: between operations, and after one that failed, a thread has  *)
(* the context and the priority it had before, and the contexts of others   *)
(* are still there.                                                         *)
ContextRestored ==
  /\ Foreign \subseteq alive
  /\ \A t \in Thread :
       In(t, "none") \/ In(t, "raised")
         => attached[t] = home[t] /\ priority[t] = "own"
=============================================================================
