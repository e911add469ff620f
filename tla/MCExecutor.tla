----------------------------- MODULE MCExecutor -----------------------------
(***************************************************************************)
(* Small instances of Executor: callbacks of each kind, spread over two    *)
(* mutually exclusive groups and a reentrant one. The .cfg files choose    *)
(* which of them an instance has.                                          *)
(***************************************************************************)
EXTENDS Executor, TLC

CONSTANTS timer, timer2, sub, service, client, waitable, g1, g2, reentrant

MCKind == [c \in Callbacks |->
             CASE c \in {timer, timer2} -> "timer"
               [] c = sub     -> "subscription"
               [] c = service -> "service"
               [] c = client  -> "client"
               [] OTHER       -> "waitable"]

(* The subscription shares the timer's group; the second timer and the *)
(* waitable are reentrant.                                             *)
MCGroup == [c \in Callbacks |->
              CASE c \in {timer, sub} -> g1
                [] c \in {timer2, waitable} -> reentrant
                [] OTHER              -> g2]

(* The timer outranks the subscription of its own group; the service, asked *)
(* for later, outranks both.                                                *)
MCPriority == [c \in Callbacks |->
                 CASE c = timer   -> 2
                   [] c = service -> 3
                   [] c = client  -> 3
                   [] OTHER       -> 1]

=============================================================================
