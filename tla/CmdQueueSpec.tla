---------------------------- MODULE CmdQueueSpec ----------------------------
(***************************************************************************)
(* What a component may assume of an MfxCmdQueue                           *)
(* (c2_utils/src/mfx_cmd_queue.cpp): commands are executed one at a time,  *)
(* in the order they were pushed, by one worker thread; a null command     *)
(* ends the thread that takes it.  Mutexes, condition variables and the    *)
(* steps of a join are hidden: MfxCmdQueue shows that the class implements *)
(* this module.  The decoder and the encoder models are built on it (a     *)
(* codec never pauses its queues: there held is the constant FALSE, which  *)
(* is why it is framed by an equation).                                    *)
(***************************************************************************)
EXTENDS Sequences

CONSTANTS Commands,   \* what can be pushed; the null command is not in it
          NullCmd     \* MfxCmd(): ends the worker that takes it

VARIABLES queue,      \* m_data
          held,       \* m_bPaused
          worker,     \* "none": not joinable, "up": in Process(), "ended": to be joined
          current     \* the command being executed, NullCmd if there is none

specVars == <<queue, held, worker, current>>

Init == /\ queue = <<>>
        /\ held = FALSE
        /\ worker = "none"
        /\ current = NullCmd

Start == /\ worker = "none"
         /\ worker' = "up"
         /\ held' = held
         /\ UNCHANGED <<queue, current>>

Push(cmd) == /\ queue' = Append(queue, cmd)
             /\ held' = held
             /\ UNCHANGED <<worker, current>>

Pause == /\ held' = TRUE
         /\ UNCHANGED <<queue, worker, current>>

Resume == /\ held' = FALSE
          /\ UNCHANGED <<queue, worker, current>>

\* Stop() keeps what is queued, Abort() discards it; both end the queue with a
\* null command and let a paused worker go on.
Shutdown(abort) == /\ queue' = IF abort THEN <<NullCmd>> ELSE Append(queue, NullCmd)
                   /\ held' = FALSE
                   /\ UNCHANGED <<worker, current>>

Join == /\ worker = "ended"
        /\ worker' = "none"
        /\ held' = held
        /\ UNCHANGED <<queue, current>>

Take == /\ worker = "up"
        /\ current = NullCmd
        /\ ~held
        /\ queue # <<>>
        /\ queue' = Tail(queue)
        /\ current' = Head(queue)
        /\ worker' = IF Head(queue) = NullCmd THEN "ended" ELSE "up"
        /\ held' = held

Finish == /\ current # NullCmd
          /\ current' = NullCmd
          /\ held' = held
          /\ UNCHANGED <<queue, worker>>

Next == \/ Start
        \/ \E cmd \in Commands : Push(cmd)
        \/ Pause
        \/ Resume
        \/ \E abort \in BOOLEAN : Shutdown(abort)
        \/ Join
        \/ Take
        \/ Finish

Spec == Init /\ [][Next]_specVars
=============================================================================
