-------------------------- MODULE HelloProperties ---------------------------
(***************************************************************************)
(* What makes HelloTimer correct, and its inductive invariant.             *)
(***************************************************************************)
EXTENDS HelloTimer

\* add_timer is never called on a pending timer (lines 50, 81 and 181), and
\* the timer is never used before init_timer: no BUG stops the kernel.
\* With users that do not take turns this is what the comment at line 75
\* says of SET_DELAY: "This will avoid any race condition".
NoOops == ~oops

\* A SET_DELAY that has returned (line 82) is in force: what the timer is
\* armed with, and what the handler at line 48 will arm it with, is the
\* delay that was asked for, whatever the handler was doing meanwhile.
DelayInForce ==
    \A u \in Users : pc[u] = "ret" => secs2hello = asked[u] /\ expires = asked[u]

\* Who has taken the timer off the list and is about to put it back.
HandlerOwns == handler \in {"expires", "add"}
Owns(u) == pc[u] \in {"expires", "add"}

\* The timer never dies: while the module is in (lines 181 to 194) it is
\* pending, or its handler or a SET_DELAY is about to arm it.
TimerAlive == module = "in" => pending \/ HandlerOwns \/ \E u \in Users : Owns(u)

\* After helloplus_cleanup (line 191) neither the timer nor a run of its
\* handler is left, although del_timer waits for nobody.
UnloadedQuiet == module = "out" => ~pending /\ ~Running

-----------------------------------------------------------------------------
(* The inductive invariant, for users that take turns and come after       *)
(* helloplus_init, and unloading that meets no running handler.            *)

\* Calls are made through open files of a loaded module, one at a time.
CallInv ==
    /\ module # "in" => file = {}
    /\ \A u \in Users : pc[u] # "user" => u \in file
    /\ \A u, v \in Users : pc[u] # "user" /\ pc[v] # "user" => u = v

\* One at a time owns the timer, and then it is not pending; outside the
\* loaded module there is no timer at all.
OwnerInv ==
    /\ module \in {"timer", "in"} => ready
    /\ module # "in" => ~pending /\ ~Running
    /\ HandlerOwns => ~pending
    /\ \A u \in Users : Owns(u) => ~pending /\ ~Running

\* What a SET_DELAY has copied stays until it returns.
DelayInv ==
    \A u \in Users :
        /\ pc[u] # "user" => secs2hello = asked[u]
        /\ pc[u] \in {"add", "ret"} => expires = asked[u]

\* Behind UnloadedQuiet alone, without TakeTurns and even with opens during
\* init: only an initialised timer is armed or served, and no open file, nor
\* anything of the timer, outlives the del_timer of the cleanup.
QuietInv ==
    /\ \A u \in Users : pc[u] # "user" => u \in file
    /\ module \in {"live", "node"} => ~ready
    /\ module = "leaving" => file = {}
    /\ module = "out" => ~ready \/ file = {}
    /\ ~oops => \A u \in Users : Owns(u) => ready
    /\ module \notin {"timer", "in"} => ~pending /\ ~Running

\* Behind DelayInForce alone, whatever unloading meets.
TurnInv == CallInv /\ DelayInv

IndInv == TypeOK /\ NoOops /\ CallInv /\ OwnerInv /\ DelayInv /\ TimerAlive
=============================================================================
