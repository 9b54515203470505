---------------------------- MODULE HttpLifespan ----------------------------
(***************************************************************************)
(* The lifespan adapter of the HTTP transport (transport/http.py): an ASGI   *)
(* host sends startup and shutdown messages, in any number and order, and    *)
(* the adapter enters FastMCP's session manager at most once, warms the      *)
(* agent, latches readiness, and leaves the manager again.  Scopes follow    *)
(* each other, as ASGI has it; a scope whose handler returned is over, and   *)
(* the host may open another.  The agent is the process-wide one of          *)
(* tools/_agent.py, which requests build as well.                           *)
(***************************************************************************)
EXTENDS Integers

CONSTANT MaxMessages    \* bound on the host's messages

ASSUME LifespanAssumption == MaxMessages \in Nat

VARIABLES
    at,         \* the handler: no scope, receiving, or the await it is suspended in
    message,    \* the message being handled, "none" between two of them
    answer,     \* what the host was told last
    manager,    \* self._cm: none, entering (assigned, not entered yet), entered
    started, finalized,   \* _started, _shutdown_done
    ready,      \* _Readiness
    agent,      \* _AGENT_STATE: none, built; warm once the memory is open
    enters, exits, broken,  \* history: completed __aenter__s, calls of __aexit__,
                            \* and an __aenter__ that did not complete
    messages

lifeVars == <<at, message, answer, manager, started, finalized, ready, agent, enters, exits,
              broken, messages>>

Answers == {"none", "startup.complete", "startup.failed", "shutdown.complete", "shutdown.failed"}

\* "cut": a BaseException left the handler, which answers nothing.
LifespanInit ==
    /\ at = "closed" /\ message = "none" /\ answer = "none" /\ manager = "none"
    /\ started = FALSE /\ finalized = FALSE /\ ready = FALSE /\ agent = "none"
    /\ enters = 0 /\ exits = 0 /\ broken = FALSE /\ messages = 0

-----------------------------------------------------------------------------
\* The handler answers and returns; a completed startup keeps it receiving.
Reply(a) ==
    /\ answer' = a /\ message' = "none"
    /\ at' = IF a = "startup.complete" THEN "receiving" ELSE "closed"

\* A BaseException unwinds the handler: no message is sent.
Cut == at' = "closed" /\ message' = "none" /\ answer' = "none"

Await(place, msg) == at' = place /\ message' = msg /\ UNCHANGED answer

Deliver == at \in {"closed", "receiving"} /\ messages < MaxMessages /\ messages' = messages + 1

\* lifespan.startup: refused after a shutdown or a failed startup, and when the
\* instance is started already.
Startup ==
    /\ Deliver
    /\ IF finalized \/ started
       THEN Reply("startup.failed") /\ UNCHANGED manager
       ELSE Await("entering", "startup") /\ manager' = "entering"
    /\ UNCHANGED <<started, finalized, ready, agent, enters, exits, broken>>

\* __aenter__ ends.  A failed or interrupted one drops the reference and
\* finalizes the instance.
EnterEnds ==
    /\ at = "entering"
    /\ \/ /\ manager' = "entered" /\ started' = TRUE /\ enters' = enters + 1
          /\ Await("warming", message)
          /\ UNCHANGED <<finalized, broken>>
       \/ /\ manager' = "none" /\ finalized' = TRUE /\ broken' = TRUE
          /\ Reply("startup.failed") \/ Cut
          /\ UNCHANGED <<started, enters>>
    /\ UNCHANGED <<ready, agent, exits, messages>>

\* get_agent: build_agent runs to its end or raises, without a suspension.
Built == \/ agent = "none" /\ agent' \in {"none", "built"}
         \/ agent # "none" /\ UNCHANGED agent

\* prime_agent: the warm-up builds the agent and opens its memory, or fails, and
\* the startup completes all the same.  A BaseException passes through, and
\* leaves the manager entered.
WarmUpEnds ==
    /\ at = "warming"
    /\ \/ /\ agent' \in {agent, "built", "warm"}
          /\ ready' = TRUE /\ Reply("startup.complete")
       \/ Cut /\ agent' \in {agent, "built"} /\ UNCHANGED ready
    /\ UNCHANGED <<manager, started, finalized, enters, exits, broken, messages>>

\* Mutant of Shutdown: an instance that never became ready has nothing to leave.
ShutdownIfReady ==
    /\ Deliver
    /\ \/ /\ finalized
          /\ Reply("shutdown.complete")
          /\ UNCHANGED <<manager, finalized, exits>>
       \/ /\ ~finalized /\ ready
          /\ manager' = "none" /\ exits' = exits + 1
          /\ Await("exiting", "shutdown")
          /\ UNCHANGED finalized
       \/ /\ ~finalized /\ ~ready
          /\ finalized' = TRUE
          /\ Reply(IF started THEN "shutdown.complete" ELSE "shutdown.failed")
          /\ UNCHANGED <<manager, exits>>
    /\ UNCHANGED <<started, ready, agent, enters, broken>>

\* lifespan.shutdown.  The reference is cleared before the await.
Shutdown ==
    /\ Deliver
    /\ \/ /\ finalized
          /\ Reply("shutdown.complete")
          /\ UNCHANGED <<manager, finalized, exits>>
       \/ /\ ~finalized /\ manager # "none"
          /\ manager' = "none" /\ exits' = exits + 1
          /\ Await("exiting", "shutdown")
          /\ UNCHANGED finalized
       \/ /\ ~finalized /\ manager = "none"
          /\ finalized' = TRUE
          /\ Reply(IF started THEN "shutdown.complete" ELSE "shutdown.failed")
          /\ UNCHANGED <<manager, exits>>
    /\ UNCHANGED <<started, ready, agent, enters, broken>>

\* Mutant of ExitEnds: an interrupted close leaves the instance as it was, with the
\* manager to be closed again.
ExitEndsUnfinalized ==
    /\ at = "exiting"
    /\ \/ /\ finalized' = TRUE /\ UNCHANGED manager
          /\ Reply("shutdown.complete") \/ Reply("shutdown.failed")
       \/ Cut /\ manager' = "entered" /\ UNCHANGED finalized
    /\ UNCHANGED <<started, ready, agent, enters, exits, broken, messages>>

\* __aexit__ ends, fails or is interrupted: the instance is finalized.
ExitEnds ==
    /\ at = "exiting"
    /\ finalized' = TRUE
    /\ Reply("shutdown.complete") \/ Reply("shutdown.failed") \/ Cut
    /\ UNCHANGED <<manager, started, ready, agent, enters, exits, broken, messages>>

\* The host drops a scope that waits for its next message.
CloseScope ==
    /\ at = "receiving"
    /\ at' = "closed"
    /\ UNCHANGED <<message, answer, manager, started, finalized, ready, agent, enters, exits,
                   broken, messages>>

\* A question before or after the warm-up: the agent is built if it is not there.
Request ==
    /\ at = "receiving" /\ Built
    /\ UNCHANGED <<at, message, answer, manager, started, finalized, ready, enters, exits,
                   broken, messages>>

LifespanStep == EnterEnds \/ WarmUpEnds \/ ExitEnds
HostStep == Startup \/ Shutdown \/ CloseScope \/ Request

-----------------------------------------------------------------------------
LifespanTypeOK ==
    /\ at \in {"closed", "receiving", "entering", "warming", "exiting"}
    /\ message \in {"none", "startup", "shutdown"} /\ answer \in Answers
    /\ manager \in {"none", "entering", "entered"}
    /\ {started, finalized, ready, broken} \subseteq BOOLEAN
    /\ agent \in {"none", "built", "warm"}
    /\ {enters, exits} \subseteq Nat /\ messages \in 0 .. MaxMessages

\* "`__aexit__` is invoked at most once over an instance's lifetime, and never on a
\* CM whose `__aenter__` failed" (transport/http.py:413), whatever the host sends
\* and wherever a cancellation strikes.
ManagerLeftOnce ==
    /\ exits <= enters /\ enters <= 1
    /\ broken => enters = 0

\* What the host is told is so: a completed startup has the manager open and is
\* ready, a completed shutdown has left every manager that was entered, and
\* /readyz attests a startup that finished.
AcksAreTrue ==
    /\ answer = "startup.complete" /\ at = "receiving" => manager = "entered" /\ ready
    /\ answer = "shutdown.complete" /\ at = "closed" => manager = "none" /\ exits = enters
    /\ ready => enters = 1
=============================================================================
