------------------------------- MODULE Thread -------------------------------
(***************************************************************************)
(* tc::thread: an object that starts an OS thread, waits for it and shows  *)
(* a state that the OS thread itself writes at its end.  The task (run) is *)
(* left to the module that extends this one.                               *)
(***************************************************************************)

CONSTANT Threads   \* the thread objects

VARIABLE thr       \* object -> [m_state, os]: its state and its OS thread

ThreadInit == thr = [t \in Threads |-> [m_state |-> "NEW", os |-> "none"]]

joinable(t) == thr[t].os # "none"

\* start: m_state first, then the OS thread.  The caller does not start an
\* object whose thread it has not joined (std::thread would terminate).
start(t) ==
  /\ ~joinable(t)
  /\ thr' = [thr EXCEPT ![t] = [m_state |-> "RUNNABLE", os |-> "starting"]]

\* new_thread_start_func calls run.
begin(t) ==
  /\ thr[t].os = "starting"
  /\ thr' = [thr EXCEPT ![t].os = "running"]

\* run returned or threw; the last statement after the handlers writes m_state.
end(t) ==
  /\ thr[t].os = "running"
  /\ thr' = [thr EXCEPT ![t] = [m_state |-> "TERMINATED", os |-> "finished"]]

join(t) ==
  /\ thr[t].os = "finished"
  /\ thr' = [thr EXCEPT ![t].os = "none"]
=============================================================================
