--------------------------------- MODULE Rpc ---------------------------------
(***************************************************************************)
(* What a portal promises: a synchronous call.  The calls of a service are  *)
(* served one at a time, in the order in which they were made; every call   *)
(* gets one answer, from the service it was made to, and the caller goes on *)
(* only after that.                                                        *)
(***************************************************************************)
EXTENDS Sequences

CONSTANTS Threads, Services, NoThread

Answers == {"value", "exception"}

VARIABLES
    called,    \* the service a thread is calling
    queue,     \* the callers a service has not started to serve
    serving,   \* the caller a service is serving
    answer     \* the answer a caller has got and not yet taken

rpcVars == <<called, queue, serving, answer>>

NotCalling == "none"
NoAnswer == << >>

Init ==
    /\ called = [t \in Threads |-> NotCalling]
    /\ queue = [s \in Services |-> << >>]
    /\ serving = [s \in Services |-> NoThread]
    /\ answer = [t \in Threads |-> NoAnswer]

Call(t, s) ==
    /\ called[t] = NotCalling
    /\ called' = [called EXCEPT ![t] = s]
    /\ queue' = [queue EXCEPT ![s] = Append(@, t)]
    /\ UNCHANGED <<serving, answer>>

Serve(s) ==
    /\ queue[s] # << >> /\ serving[s] = NoThread
    /\ serving' = [serving EXCEPT ![s] = Head(queue[s])]
    /\ queue' = [queue EXCEPT ![s] = Tail(@)]
    /\ UNCHANGED <<called, answer>>

Answer(s, a) ==
    /\ serving[s] # NoThread
    /\ answer[serving[s]] = NoAnswer
    /\ answer' = [answer EXCEPT ![serving[s]] = <<s, a>>]
    /\ serving' = [serving EXCEPT ![s] = NoThread]
    /\ UNCHANGED <<called, queue>>

Return(t) ==
    /\ called[t] # NotCalling
    /\ answer[t] # NoAnswer /\ answer[t][1] = called[t]
    /\ called' = [called EXCEPT ![t] = NotCalling]
    /\ answer' = [answer EXCEPT ![t] = NoAnswer]
    /\ UNCHANGED <<queue, serving>>

Next ==
    \/ \E t \in Threads, s \in Services : Call(t, s)
    \/ \E s \in Services : Serve(s)
    \/ \E s \in Services, a \in Answers : Answer(s, a)
    \/ \E t \in Threads : Return(t)

Spec == Init /\ [][Next]_rpcVars
=============================================================================
