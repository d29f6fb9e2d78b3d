---------------------------- MODULE SchedProofs ----------------------------
(***************************************************************************)
(* Proofs about Sched for any set of tasks and any number of priorities.   *)
(*                                                                         *)
(* The argument: a list operation keeps a list well formed and moves       *)
(* exactly one task (AddTail, Del); a state change is an Unlink from the   *)
(* list of the old state followed by a Link to that of the new one, so it  *)
(* keeps Filed (SetState, Enlist); find_next_run_task gives a ready task   *)
(* or the current one (FindNext), and a switch to either keeps the         *)
(* invariant (Switch).  IInv is the conjunction of the safety properties   *)
(* and of the fact that a reaped task is IDLE; no part of it is inductive  *)
(* alone: the lists are right after a switch only if the outgoing task was *)
(* the RUNNING one, and a switch on a tick happens only if the slice is    *)
(* armed.                                                                  *)
(***************************************************************************)
EXTENDS Sched, TLAPS, WellFoundedInduction

\* The type of q.
Queues == [prio : [Prios -> SchedList], sleep : SchedList, idle : SchedList,
           system : SchedList]

\* sched_list_add_task_tail on a task that is not on the list: the list stays
\* well formed and gains that task only.
LEMMA AddTail ==
  ASSUME NEW l \in SchedList, NEW t \in Tasks, WellFormed(l), ~On(l, t)
  PROVE  /\ list_add_tail(l, t) \in SchedList
         /\ WellFormed(list_add_tail(l, t))
         /\ \A u \in Tasks : On(list_add_tail(l, t), u) <=> On(l, u) \/ u = t
<1> DEFINE s == l.list
           m == list_add_tail(l, t)
<1>1. s \in Seq(Tasks) /\ Len(s) \in Nat /\ l.count \in Int
  BY DEF SchedList
<1>2. m.list = Append(s, t) /\ m.count = l.count + 1 /\ m \in SchedList
  BY <1>1 DEF list_add_tail, SchedList
<1>3. /\ Len(m.list) = Len(s) + 1
      /\ \A i \in 1 .. Len(s) : m.list[i] = s[i]
      /\ m.list[Len(s) + 1] = t
  BY <1>1, <1>2
<1>4. WellFormed(m)
  BY <1>1, <1>2, <1>3 DEF WellFormed, On
<1>5. \A u \in Tasks : On(m, u) <=> On(l, u) \/ u = t
  <2> TAKE u \in Tasks
  <2>1. On(m, u) => On(l, u) \/ u = t
    BY <1>1, <1>3, SMTT(30) DEF On
  <2>2. On(l, u) => On(m, u)
    BY <1>1, <1>3, SMTT(30) DEF On
  <2>3. u = t => On(m, u)
    BY <1>1, <1>3 DEF On
  <2> QED  BY <2>1, <2>2, <2>3
<1> QED  BY <1>2, <1>4, <1>5

\* sched_list_del_task on a task that is on the list: the list stays well
\* formed and loses that task only.
LEMMA Del ==
  ASSUME NEW l \in SchedList, NEW t \in Tasks, WellFormed(l), On(l, t)
  PROVE  /\ list_del(l, t) \in SchedList
         /\ WellFormed(list_del(l, t))
         /\ \A u \in Tasks : On(list_del(l, t), u) <=> On(l, u) /\ u # t
<1> DEFINE s == l.list
           m == list_del(l, t)
           k == CHOOSE i \in 1 .. Len(s) : s[i] = t
<1>1. /\ s \in Seq(Tasks) /\ Len(s) \in Nat /\ l.count \in Int
      /\ \A i \in 1 .. Len(s) : s[i] \in Tasks
  BY DEF SchedList
<1>2. k \in 1 .. Len(s) /\ s[k] = t
  BY DEF On
<1> HIDE DEF k
<1>3. m.list = [i \in 1 .. Len(s) - 1 |-> IF i < k THEN s[i] ELSE s[i + 1]]
  BY DEF list_del, Without, k
<1>4. Len(s) - 1 \in Nat
  BY <1>1, <1>2
<1>5. m.list \in Seq(Tasks) /\ Len(m.list) = Len(s) - 1
  <2>1. m.list \in [1 .. Len(s) - 1 -> Tasks]
    BY <1>1, <1>2, <1>3
  <2> QED  BY <2>1, <1>4
<1>6. m \in SchedList /\ m.count = l.count - 1
  BY <1>1, <1>5 DEF list_del, SchedList
<1>7. \A i \in 1 .. Len(s) - 1 : m.list[i] = IF i < k THEN s[i] ELSE s[i + 1]
  BY <1>3
<1>u. \A i \in 1 .. Len(s) : s[i] = t => i = k
  BY <1>2 DEF WellFormed
<1>8. WellFormed(m)
  <2>1. ASSUME NEW i \in 1 .. Len(m.list), NEW j \in 1 .. Len(m.list),
               m.list[i] = m.list[j]
        PROVE  i = j
    <3> DEFINE a == IF i < k THEN i ELSE i + 1
               b == IF j < k THEN j ELSE j + 1
    <3>1. a \in 1 .. Len(s) /\ b \in 1 .. Len(s)
      BY <1>1, <1>2, <1>5
    <3>2. s[a] = s[b]
      BY <2>1, <1>5, <1>7
    <3>3. a = b
      BY <3>1, <3>2 DEF WellFormed
    <3> QED  BY <3>3, <1>1, <1>2, <1>5
  <2>2. m.count = Len(m.list)
    BY <1>5, <1>6 DEF WellFormed
  <2> QED  BY <2>1, <2>2 DEF WellFormed
<1>9. \A u \in Tasks : On(m, u) <=> On(l, u) /\ u # t
  <2> TAKE u \in Tasks
  <2>1. ASSUME On(m, u) PROVE On(l, u) /\ u # t
    <3>1. PICK i \in 1 .. Len(m.list) : m.list[i] = u
      BY <2>1 DEF On
    <3> DEFINE a == IF i < k THEN i ELSE i + 1
    <3>2. a \in 1 .. Len(s) /\ s[a] = u /\ a # k
      BY <3>1, <1>1, <1>2, <1>5, <1>7
    <3> QED  BY <3>2, <1>u DEF On
  <2>2. ASSUME On(l, u), u # t PROVE On(m, u)
    <3>1. PICK i \in 1 .. Len(s) : s[i] = u
      BY <2>2 DEF On
    <3>2. i # k
      BY <3>1, <2>2, <1>2
    <3>3. CASE i < k
      <4>1. i \in 1 .. Len(s) - 1 /\ m.list[i] = u
        BY <3>1, <3>3, <1>1, <1>2, <1>7
      <4> QED  BY <4>1, <1>5 DEF On
    <3>4. CASE k < i
      <4>1. i - 1 \in 1 .. Len(s) - 1 /\ ~(i - 1 < k) /\ (i - 1) + 1 = i
        BY <3>4, <1>1, <1>2
      <4>2. m.list[i - 1] = u
        BY <4>1, <3>1, <1>7
      <4> QED  BY <4>1, <4>2, <1>5 DEF On
    <3> QED  BY <3>2, <3>3, <3>4, <1>2
  <2> QED  BY <2>1, <2>2
<1> QED  BY <1>6, <1>8, <1>9

\* A set of priorities that is not empty has a least element: the loop of
\* find_next_run_task stops at it.
LEMMA LeastElement ==
  ASSUME NEW S, S \subseteq Nat, S # {}
  PROVE  \E x \in S : \A y \in S : x <= y
<1>1. PICK x \in S : \A y \in S : ~(<<y, x>> \in OpToRel(<, Nat))
  BY NatLessThanWellFounded, WFMin
<1>2. \A y \in S : ~(y < x)
  BY <1>1 DEF OpToRel
<1> QED  BY <1>2

\* Filed, except that t is on none of the lists of the states: the lists half
\* way through set_task_state.
FiledBut(qq, st, pr, rp, t) ==
  /\ \A p \in Prios : WellFormed(qq.prio[p])
  /\ WellFormed(qq.sleep) /\ WellFormed(qq.idle) /\ WellFormed(qq.system)
  /\ \A u \in Tasks :
        /\ \A p \in Prios :
              On(qq.prio[p], u) <=> u # t /\ st[u] = "PREPARE" /\ pr[u] = p
        /\ On(qq.sleep, u) <=> u # t /\ st[u] = "SLEEP"
        /\ On(qq.idle, u) <=> u # t /\ st[u] = "IDLE" /\ u \notin rp
        /\ On(qq.system, u) <=> /\ u # Idle
                                /\ st[u] # "UNKNOWN"
                                /\ u \notin rp

\* The deletions of set_task_state take t off the list of its old state, for
\* every old state a live task can have.
LEMMA Unlink ==
  ASSUME NEW qq \in Queues, NEW st \in [Tasks -> States],
         NEW pr \in [Tasks -> Prios], NEW rp, NEW t \in Tasks,
         Filed(qq, st, pr, rp), st[t] \in {"PREPARE", "RUNNING", "SLEEP"}
  PROVE  /\ unlink(qq, t, pr[t], st[t]) \in Queues
         /\ FiledBut(unlink(qq, t, pr[t], st[t]), st, pr, rp, t)
<1> DEFINE q2 == unlink(qq, t, pr[t], st[t])
           p == pr[t]
<1>0. p \in Prios
  OBVIOUS
<1>1. CASE st[t] = "PREPARE"
  <2> DEFINE l == list_del(qq.prio[p], t)
  <2>1. /\ l \in SchedList /\ WellFormed(l)
        /\ \A u \in Tasks : On(l, u) <=> On(qq.prio[p], u) /\ u # t
    BY <1>1, <1>0, Del DEF Filed, Queues
  <2> HIDE DEF l
  <2>2. q2 = [qq EXCEPT !.prio[p] = l]
    BY <1>1 DEF unlink, l
  <2>3. /\ q2 \in Queues
        /\ q2.prio = [qq.prio EXCEPT ![p] = l]
        /\ q2.sleep = qq.sleep /\ q2.idle = qq.idle /\ q2.system = qq.system
    BY <2>1, <2>2, <1>0 DEF Queues
  <2>4. q2.prio[p] = l /\ \A r \in Prios : r # p => q2.prio[r] = qq.prio[r]
    BY <2>3, <1>0 DEF Queues
  <2> HIDE DEF q2
  <2> QED  BY <1>1, <1>0, <2>1, <2>3, <2>4 DEF Filed, FiledBut, q2
<1>2. CASE st[t] = "SLEEP"
  <2> DEFINE l == list_del(qq.sleep, t)
  <2>1. /\ l \in SchedList /\ WellFormed(l)
        /\ \A u \in Tasks : On(l, u) <=> On(qq.sleep, u) /\ u # t
    BY <1>2, Del DEF Filed, Queues
  <2> HIDE DEF l
  <2>2. q2 = [qq EXCEPT !.sleep = l]
    BY <1>2 DEF unlink, l
  <2>3. /\ q2 \in Queues
        /\ q2.prio = qq.prio
        /\ q2.sleep = l /\ q2.idle = qq.idle /\ q2.system = qq.system
    BY <2>1, <2>2 DEF Queues
  <2> HIDE DEF q2
  <2> QED  BY <1>2, <2>1, <2>3 DEF Filed, FiledBut, q2
<1>3. CASE st[t] = "RUNNING"
  <2>1. q2 = qq
    BY <1>3 DEF unlink
  <2> HIDE DEF q2
  <2> QED  BY <1>3, <2>1 DEF Filed, FiledBut, q2
<1> QED  BY <1>1, <1>2, <1>3

\* The additions of set_task_state file t on the list of its new state.
LEMMA Link ==
  ASSUME NEW qq \in Queues, NEW st \in [Tasks -> States],
         NEW pr \in [Tasks -> Prios], NEW rp, NEW t \in Tasks,
         FiledBut(qq, st, pr, rp, t), st[t] # "UNKNOWN", t \notin rp,
         NEW new \in {"PREPARE", "RUNNING", "SLEEP", "IDLE"}
  PROVE  /\ link(qq, t, pr[t], new) \in Queues
         /\ Filed(link(qq, t, pr[t], new), [st EXCEPT ![t] = new], pr, rp)
<1> DEFINE q2 == link(qq, t, pr[t], new)
           p == pr[t]
           st2 == [st EXCEPT ![t] = new]
<1>0. p \in Prios /\ st2[t] = new /\ \A u \in Tasks : u # t => st2[u] = st[u]
  OBVIOUS
<1> HIDE DEF st2
<1>1. CASE new = "PREPARE"
  <2> DEFINE l == list_add_tail(qq.prio[p], t)
  <2>1. /\ l \in SchedList /\ WellFormed(l)
        /\ \A u \in Tasks : On(l, u) <=> On(qq.prio[p], u) \/ u = t
    BY <1>1, <1>0, AddTail DEF FiledBut, Queues
  <2> HIDE DEF l
  <2>2. q2 = [qq EXCEPT !.prio[p] = l]
    BY <1>1 DEF link, l
  <2>3. /\ q2 \in Queues
        /\ q2.prio = [qq.prio EXCEPT ![p] = l]
        /\ q2.sleep = qq.sleep /\ q2.idle = qq.idle /\ q2.system = qq.system
    BY <2>1, <2>2, <1>0 DEF Queues
  <2>4. q2.prio[p] = l /\ \A r \in Prios : r # p => q2.prio[r] = qq.prio[r]
    BY <2>3, <1>0 DEF Queues
  <2> HIDE DEF q2
  <2>5. Filed(q2, st2, pr, rp)
    BY <1>1, <1>0, <2>1, <2>3, <2>4 DEF Filed, FiledBut
  <2> QED  BY <2>3, <2>5 DEF q2, st2
<1>2. CASE new = "SLEEP"
  <2> DEFINE l == list_add_tail(qq.sleep, t)
  <2>1. /\ l \in SchedList /\ WellFormed(l)
        /\ \A u \in Tasks : On(l, u) <=> On(qq.sleep, u) \/ u = t
    BY <1>2, <1>0, AddTail DEF FiledBut, Queues
  <2> HIDE DEF l
  <2>2. q2 = [qq EXCEPT !.sleep = l]
    BY <1>2 DEF link, l
  <2>3. /\ q2 \in Queues
        /\ q2.prio = qq.prio
        /\ q2.sleep = l /\ q2.idle = qq.idle /\ q2.system = qq.system
    BY <2>1, <2>2 DEF Queues
  <2> HIDE DEF q2
  <2>5. Filed(q2, st2, pr, rp)
    BY <1>2, <1>0, <2>1, <2>3 DEF Filed, FiledBut
  <2> QED  BY <2>3, <2>5 DEF q2, st2
<1>3. CASE new = "IDLE"
  <2> DEFINE l == list_add_tail(qq.idle, t)
  <2>1. /\ l \in SchedList /\ WellFormed(l)
        /\ \A u \in Tasks : On(l, u) <=> On(qq.idle, u) \/ u = t
    BY <1>3, <1>0, AddTail DEF FiledBut, Queues
  <2> HIDE DEF l
  <2>2. q2 = [qq EXCEPT !.idle = l]
    BY <1>3 DEF link, l
  <2>3. /\ q2 \in Queues
        /\ q2.prio = qq.prio
        /\ q2.sleep = qq.sleep /\ q2.idle = l /\ q2.system = qq.system
    BY <2>1, <2>2 DEF Queues
  <2> HIDE DEF q2
  <2>5. Filed(q2, st2, pr, rp)
    BY <1>3, <1>0, <2>1, <2>3 DEF Filed, FiledBut
  <2> QED  BY <2>3, <2>5 DEF q2, st2
<1>4. CASE new = "RUNNING"
  <2>1. q2 = qq
    BY <1>4 DEF link
  <2> HIDE DEF q2
  <2>2. Filed(q2, st2, pr, rp)
    BY <1>4, <1>0, <2>1 DEF Filed, FiledBut
  <2> QED  BY <2>1, <2>2 DEF q2, st2
<1> QED  BY <1>1, <1>2, <1>3, <1>4

\* set_task_state on a live task whose old state is the present one keeps the
\* lists filed, whether or not change_table has the pair.
LEMMA SetState ==
  ASSUME NEW qq \in Queues, NEW st \in [Tasks -> States],
         NEW pr \in [Tasks -> Prios], NEW rp, NEW t \in Tasks,
         Filed(qq, st, pr, rp),
         \A u \in rp : st[u] = "IDLE",
         st[t] # "UNKNOWN",
         NEW new \in {"PREPARE", "RUNNING", "SLEEP", "IDLE"},
         ~(st[t] = "PREPARE" /\ new = "PREPARE")
  PROVE  /\ set_task_state_q(qq, t, pr[t], st[t], new) \in Queues
         /\ set_task_state_st(st, t, st[t], new) \in [Tasks -> States]
         /\ Filed(set_task_state_q(qq, t, pr[t], st[t], new),
                  set_task_state_st(st, t, st[t], new), pr, rp)
<1> DEFINE q2 == set_task_state_q(qq, t, pr[t], st[t], new)
           st2 == set_task_state_st(st, t, st[t], new)
<1>1. CASE ~get_state_change(st[t], new)
  BY <1>1 DEF set_task_state_q, set_task_state_st
<1>2. CASE get_state_change(st[t], new)
  <2>1. st[t] \in {"PREPARE", "RUNNING", "SLEEP"}
    BY <1>2 DEF get_state_change, change_table
  <2>2. t \notin rp
    BY <2>1
  <2> DEFINE q1 == unlink(qq, t, pr[t], st[t])
  <2>3. q1 \in Queues /\ FiledBut(q1, st, pr, rp, t)
    BY <2>1, Unlink
  <2>4. q2 = link(q1, t, pr[t], new) /\ st2 = [st EXCEPT ![t] = new]
    BY <1>2, <2>1 DEF set_task_state_q, set_task_state_st, relink
  <2> HIDE DEF q1, q2, st2
  <2>5. q2 \in Queues /\ Filed(q2, [st EXCEPT ![t] = new], pr, rp)
    BY <2>2, <2>3, <2>4, Link
  <2>6. [st EXCEPT ![t] = new] \in [Tasks -> States]
    BY DEF States
  <2> QED  BY <2>4, <2>5, <2>6 DEF q2, st2
<1> QED  BY <1>1, <1>2

\* set_task_state(UNKNOWN -> PREPARE), at the end of a fork, enlists the task on
\* the system list and on its priority list.
LEMMA Enlist ==
  ASSUME NEW qq \in Queues, NEW st \in [Tasks -> States],
         NEW pr \in [Tasks -> Prios], NEW rp, NEW t \in Tasks, t # Idle,
         Filed(qq, st, pr, rp), t \notin rp, st[t] = "UNKNOWN"
  PROVE  /\ set_task_state_q(qq, t, pr[t], "UNKNOWN", "PREPARE") \in Queues
         /\ Filed(set_task_state_q(qq, t, pr[t], "UNKNOWN", "PREPARE"),
                  [st EXCEPT ![t] = "PREPARE"], pr, rp)
<1> DEFINE q2 == set_task_state_q(qq, t, pr[t], "UNKNOWN", "PREPARE")
           st2 == [st EXCEPT ![t] = "PREPARE"]
           p == pr[t]
           l == list_add_tail(qq.system, t)
           m == list_add_tail(qq.prio[p], t)
<1>0. p \in Prios /\ st2[t] = "PREPARE" /\ \A u \in Tasks : u # t => st2[u] = st[u]
  OBVIOUS
<1>1. /\ l \in SchedList /\ WellFormed(l)
      /\ \A u \in Tasks : On(l, u) <=> On(qq.system, u) \/ u = t
  BY AddTail DEF Filed, Queues
<1>2. /\ m \in SchedList /\ WellFormed(m)
      /\ \A u \in Tasks : On(m, u) <=> On(qq.prio[p], u) \/ u = t
  BY <1>0, AddTail DEF Filed, Queues
<1> DEFINE q1 == [qq EXCEPT !.system = l]
<1>3. q2 = [q1 EXCEPT !.prio[p] = m]
  BY DEF set_task_state_q, get_state_change, change_table, relink, enlist, link
<1> HIDE DEF l, m, st2
<1>a. /\ q1 \in Queues
      /\ q1.prio = qq.prio
      /\ q1.sleep = qq.sleep /\ q1.idle = qq.idle /\ q1.system = l
  BY <1>1 DEF Queues
<1> HIDE DEF q1, q2
<1>4. /\ q2 \in Queues
      /\ q2.prio = [qq.prio EXCEPT ![p] = m]
      /\ q2.sleep = qq.sleep /\ q2.idle = qq.idle /\ q2.system = l
  BY <1>0, <1>2, <1>3, <1>a DEF Queues
<1>5. q2.prio[p] = m /\ \A r \in Prios : r # p => q2.prio[r] = qq.prio[r]
  BY <1>4, <1>0 DEF Queues
<1>6. Filed(q2, st2, pr, rp)
  BY <1>0, <1>1, <1>2, <1>4, <1>5 DEF Filed
<1> QED  BY <1>4, <1>6 DEF q2, st2

\* The priority of a task that is not ready may change freely.
LEMMA ChangePrio ==
  ASSUME NEW qq, NEW st \in [Tasks -> States],
         NEW pr \in [Tasks -> Prios], NEW rp, NEW t \in Tasks, NEW p \in Prios,
         Filed(qq, st, pr, rp), st[t] # "PREPARE"
  PROVE  Filed(qq, st, [pr EXCEPT ![t] = p], rp)
<1> DEFINE pr2 == [pr EXCEPT ![t] = p]
<1>1. \A u \in Tasks : u # t => pr2[u] = pr[u]
  OBVIOUS
<1> HIDE DEF pr2
<1>2. Filed(qq, st, pr2, rp)
  BY <1>1 DEF Filed
<1> QED  BY <1>2 DEF pr2

-----------------------------------------------------------------------------

\* The inductive invariant.
IInv ==
  /\ TypeOK
  /\ OneListPerState
  /\ RunningIsCurrent
  /\ SliceArmed
  /\ \A t \in reaped : state[t] = "IDLE"

\* find_next_run_task gives up the CPU to a ready task or to nobody.
LEMMA FindNext ==
  ASSUME IInv
  PROVE  /\ find_next_run_task \in Tasks
         /\ find_next_run_task = current \/ state[find_next_run_task] = "PREPARE"
         /\ ReadyPrios # {} => state[find_next_run_task] = "PREPARE"
<1>1. CASE ReadyPrios = {}
  BY <1>1 DEF find_next_run_task, IInv, TypeOK
<1>2. CASE ReadyPrios # {}
  <2> DEFINE i == CHOOSE p \in ReadyPrios : \A r \in ReadyPrios : p <= r
  <2>1. ReadyPrios \subseteq Nat
    BY SchedAssumption DEF ReadyPrios
  <2>2. i \in ReadyPrios
    BY <1>2, <2>1, LeastElement
  <2>3. find_next_run_task = q.prio[i].list[1]
    BY <1>2 DEF find_next_run_task
  <2> HIDE DEF i
  <2>4. i \in Prios /\ q.prio[i].count # 0
    BY <2>2, SchedAssumption DEF ReadyPrios, Prios
  <2>5. /\ q.prio[i].list \in Seq(Tasks)
        /\ Len(q.prio[i].list) \in Nat
        /\ WellFormed(q.prio[i])
    BY <2>4 DEF IInv, TypeOK, SchedList, OneListPerState, Filed
  <2>6. 1 \in 1 .. Len(q.prio[i].list)
    BY <2>4, <2>5 DEF WellFormed
  <2> DEFINE t == q.prio[i].list[1]
  <2>7. t \in Tasks /\ On(q.prio[i], t)
    BY <2>5, <2>6 DEF On
  <2>8. state[t] = "PREPARE"
    BY <2>4, <2>7 DEF IInv, OneListPerState, Filed
  <2> QED  BY <2>3, <2>7, <2>8
<1> QED  BY <1>1, <1>2

\* A switch to a ready task or to the current one keeps the invariant.
LEMMA Switch ==
  ASSUME IInv, tick' \in Nat, UNCHANGED <<prio, reaped>>,
         NEW next \in Tasks, next = current \/ state[next] = "PREPARE",
         prepare_to_switch(next)
  PROVE  IInv'
<1> USE DEF IInv
<1>1. CASE next = current
  <2>1. UNCHANGED <<state, q, wait_time, time_out, current>> /\ run_time' = 1 /\ next_run' = current'
    BY <1>1 DEF prepare_to_switch
  <2>2. TypeOK'
    BY <2>1 DEF TypeOK
  <2>3. OneListPerState'
    BY <2>1 DEF OneListPerState
  <2> QED  BY <2>1, <2>2, <2>3 DEF RunningIsCurrent, SliceArmed
<1>2. CASE next # current
  <2> DEFINE cst == state[current]
             q1  == IF cst = "RUNNING"
                    THEN set_task_state_q(q, current, prio[current], cst, "PREPARE")
                    ELSE q
             st1 == IF cst = "RUNNING"
                    THEN set_task_state_st(state, current, cst, "PREPARE")
                    ELSE state
  <2>0. /\ q \in Queues /\ state \in [Tasks -> States] /\ prio \in [Tasks -> Prios]
        /\ current \in Tasks /\ Filed(q, state, prio, reaped)
        /\ state[next] = "PREPARE"
        /\ \A u \in reaped : state[u] = "IDLE"
        /\ reaped \subseteq Tasks
    BY <1>2 DEF TypeOK, Queues, OneListPerState
  <2>1. /\ q1 \in Queues /\ st1 \in [Tasks -> States]
        /\ Filed(q1, st1, prio, reaped)
    <3>1. CASE cst = "RUNNING"
      BY <3>1, <2>0, SetState
    <3>2. CASE cst # "RUNNING"
      BY <3>2, <2>0
    <3> QED  BY <3>1, <3>2
  <2>2. /\ \A u \in Tasks : u # current => st1[u] = state[u]
        /\ st1[current] # "RUNNING"
        /\ st1[current] = state[current] \/ state[current] = "RUNNING"
    BY <2>0 DEF set_task_state_st, get_state_change, change_table
  <2>3. \A u \in reaped : st1[u] = "IDLE"
    BY <2>0, <2>2
  <2>4. /\ time_out' = IF wait_time[next] = 0
                       THEN [time_out EXCEPT ![next] = 1]
                       ELSE time_out
        /\ wait_time' = [wait_time EXCEPT ![next] = -1]
        /\ q' = set_task_state_q(q1, next, prio[next], st1[next], "RUNNING")
        /\ state' = set_task_state_st(st1, next, st1[next], "RUNNING")
        /\ run_time' = 1 /\ next_run' = next /\ current' = next
    BY <1>2 DEF prepare_to_switch
  <2> HIDE DEF q1, st1
  <2>5. st1[next] = "PREPARE"
    BY <2>0, <2>2, <1>2
  <2>6. /\ q' \in Queues /\ state' \in [Tasks -> States]
        /\ Filed(q', state', prio, reaped)
    BY <2>0, <2>1, <2>3, <2>4, <2>5, SetState
  <2>7. state' = [st1 EXCEPT ![next] = "RUNNING"]
    BY <2>4, <2>5 DEF set_task_state_st, get_state_change, change_table
  <2>8. TypeOK'
    BY <2>4, <2>6 DEF TypeOK, Queues
  <2>9. OneListPerState'
    BY <2>6 DEF OneListPerState
  <2>10. RunningIsCurrent'
    BY <2>1, <2>2, <2>4, <2>7 DEF RunningIsCurrent
  <2>11. \A u \in reaped' : state'[u] = "IDLE"
    BY <2>0, <2>1, <2>3, <2>5, <2>7
  <2> QED  BY <2>4, <2>8, <2>9, <2>10, <2>11 DEF SliceArmed
<1> QED  BY <1>1, <1>2

\* The invariant holds when the idle task starts to run.
LEMMA InitIInv == SchedInit => IInv
<1> SUFFICES ASSUME SchedInit PROVE IInv
  OBVIOUS
<1> USE SchedAssumption DEF SchedInit
<1>1. EmptyList \in SchedList /\ WellFormed(EmptyList) /\ \A t \in Tasks : ~On(EmptyList, t)
  BY DEF EmptyList, SchedList, WellFormed, On
<1>2. KERNEL_THREAD_PRIO - 1 \in Prios
  BY DEF Prios
<1> HIDE DEF EmptyList
<1>3. TypeOK
  BY <1>1, <1>2 DEF TypeOK, States
<1>4. OneListPerState
  BY <1>1 DEF OneListPerState, Filed
<1> QED  BY <1>3, <1>4 DEF IInv, RunningIsCurrent, SliceArmed

\* A state change of one live task, whose old state is the present one.
LEMMA MoveIInv ==
  ASSUME IInv, NEW t \in Tasks, state[t] # "UNKNOWN",
         NEW new \in {"PREPARE", "SLEEP", "IDLE"},
         ~(state[t] = "PREPARE" /\ new = "PREPARE"),
         set_task_state(t, state[t], new),
         wait_time' \in [Tasks -> Int], time_out' \in [Tasks -> {0, 1}],
         tick' \in Nat, run_time' = 1,
         UNCHANGED <<prio, current, next_run, reaped>>
  PROVE  IInv'
<1> USE DEF IInv
<1>0. /\ q \in Queues /\ state \in [Tasks -> States] /\ prio \in [Tasks -> Prios]
      /\ Filed(q, state, prio, reaped)
      /\ \A u \in reaped : state[u] = "IDLE"
      /\ reaped \subseteq Tasks
  BY DEF TypeOK, Queues, OneListPerState
<1>1. /\ q' = set_task_state_q(q, t, prio[t], state[t], new)
      /\ state' = set_task_state_st(state, t, state[t], new)
  BY DEF set_task_state
<1>2. /\ q' \in Queues /\ state' \in [Tasks -> States]
      /\ Filed(q', state', prio, reaped)
  BY <1>0, <1>1, SetState
<1>3. state' = state \/ (state[t] # "IDLE" /\ state' = [state EXCEPT ![t] = new])
  BY <1>1 DEF set_task_state_st, get_state_change, change_table
<1>4. TypeOK'
  BY <1>2 DEF TypeOK, Queues
<1>5. OneListPerState'
  BY <1>2 DEF OneListPerState
<1>6. RunningIsCurrent'
  BY <1>0, <1>3 DEF RunningIsCurrent
<1>7. \A u \in reaped' : state'[u] = "IDLE"
  BY <1>0, <1>3
<1> QED  BY <1>4, <1>5, <1>6, <1>7 DEF SliceArmed

\* Every step keeps the invariant.
LEMMA NextIInv == IInv /\ [SchedNext]_schedVars => IInv'
<1> SUFFICES ASSUME IInv, [SchedNext]_schedVars PROVE IInv'
  OBVIOUS
<1> USE DEF IInv
<1>0. /\ TypeOK /\ OneListPerState /\ RunningIsCurrent /\ SliceArmed
      /\ \A u \in reaped : state[u] = "IDLE"
      /\ 1 \in Nat /\ 0 \in Nat
  OBVIOUS
<1>1. ASSUME NEW t \in Tasks, NEW p \in Prios, t # Idle, CreateTask(t, p)
      PROVE  IInv'
  <2>0. /\ q \in Queues /\ state \in [Tasks -> States] /\ prio \in [Tasks -> Prios]
        /\ Filed(q, state, prio, reaped) /\ reaped \subseteq Tasks
        /\ state[t] = "UNKNOWN" /\ t \notin reaped
    BY <1>1 DEF TypeOK, Queues, OneListPerState, CreateTask
  <2> DEFINE pr2 == [prio EXCEPT ![t] = p]
  <2>1. Filed(q, state, pr2, reaped) /\ pr2 \in [Tasks -> Prios] /\ pr2[t] = p
    BY <2>0, ChangePrio
  <2> HIDE DEF pr2
  <2>2. /\ prio' = pr2 /\ state' = [state EXCEPT ![t] = "PREPARE"]
        /\ q' = set_task_state_q(q, t, pr2[t], "UNKNOWN", "PREPARE")
        /\ wait_time' = [wait_time EXCEPT ![t] = -1]
        /\ time_out' = [time_out EXCEPT ![t] = 0]
        /\ UNCHANGED <<run_time, current, next_run, tick, reaped>>
    BY <1>1, <2>1 DEF CreateTask, set_task_state_st, get_state_change, change_table, pr2
  <2>3. q' \in Queues /\ Filed(q', state', prio', reaped')
    BY <1>1, <2>0, <2>1, <2>2, Enlist
  <2>4. TypeOK'
    BY <2>0, <2>1, <2>2, <2>3 DEF TypeOK, Queues, States
  <2>5. RunningIsCurrent' /\ SliceArmed' /\ \A u \in reaped' : state'[u] = "IDLE"
    BY <2>0, <2>2 DEF RunningIsCurrent, SliceArmed
  <2> QED  BY <2>3, <2>4, <2>5 DEF OneListPerState
<1>2. ASSUME NEW t \in Tasks, NEW n \in Timeouts, Live(t), SuspendTask(t, n)
      PROVE  IInv'
  <2>1. wait_time' \in [Tasks -> Int] /\ time_out' \in [Tasks -> {0, 1}]
    BY <1>2, SchedAssumption DEF SuspendTask, TypeOK
  <2> QED  BY <1>2, <2>1, MoveIInv DEF SuspendTask, Live, TypeOK, SliceArmed
<1>3. ASSUME NEW t \in Tasks, Live(t), WakeupTask(t)
      PROVE  IInv'
  BY <1>3, MoveIInv DEF WakeupTask, Live, TypeOK, SliceArmed
<1>4. ASSUME NEW t \in Tasks, Live(t), StopTask(t)
      PROVE  IInv'
  BY <1>4, MoveIInv DEF StopTask, Live, TypeOK, SliceArmed
<1>5. ASSUME NEW t \in Tasks, Live(t), t # current, RemoveTask(t)
      PROVE  IInv'
  <2>0. q \in Queues /\ Filed(q, state, prio, reaped) /\ state[t] = "IDLE" /\ t \notin reaped /\ t # Idle
    BY <1>5 DEF TypeOK, Queues, OneListPerState, RemoveTask, Live
  <2> DEFINE l == list_del(q.idle, t)
             m == list_del(q.system, t)
  <2>1. /\ l \in SchedList /\ WellFormed(l)
        /\ \A u \in Tasks : On(l, u) <=> On(q.idle, u) /\ u # t
    BY <2>0, Del DEF Filed, Queues
  <2>2. /\ m \in SchedList /\ WellFormed(m)
        /\ \A u \in Tasks : On(m, u) <=> On(q.system, u) /\ u # t
    BY <2>0, Del DEF Filed, Queues
  <2> HIDE DEF l, m
  <2>3. q' = [q EXCEPT !.idle = l, !.system = m]
    BY <1>5 DEF RemoveTask, l, m
  <2>4. /\ q' \in Queues
        /\ q'.prio = q.prio /\ q'.sleep = q.sleep /\ q'.idle = l /\ q'.system = m
    BY <2>0, <2>1, <2>2, <2>3 DEF Queues
  <2>5. /\ UNCHANGED <<state, prio, wait_time, time_out, run_time, current, next_run, tick>>
        /\ reaped' = reaped \cup {t}
    BY <1>5 DEF RemoveTask
  <2>6. Filed(q', state', prio', reaped')
    BY <2>0, <2>1, <2>2, <2>4, <2>5 DEF Filed
  <2>7. TypeOK'
    BY <2>4, <2>5 DEF TypeOK, Queues
  <2> QED  BY <2>0, <2>5, <2>6, <2>7 DEF OneListPerState, RunningIsCurrent, SliceArmed
<1>6. ASSUME NEW t \in Tasks, NEW p \in Prios, t \notin reaped,
             state[t] # "PREPARE", SetTaskPrio(t, p)
      PROVE  IInv'
  <2>1. /\ prio' = [prio EXCEPT ![t] = p]
        /\ UNCHANGED <<q, state, wait_time, time_out, run_time, current, next_run, tick, reaped>>
    BY <1>6 DEF SetTaskPrio
  <2>2. OneListPerState'
    BY <1>6, <2>1, ChangePrio DEF OneListPerState, TypeOK
  <2>3. TypeOK'
    BY <2>1 DEF TypeOK
  <2> QED  BY <2>1, <2>2, <2>3 DEF RunningIsCurrent, SliceArmed
<1>7. CASE Schedule
  <2>1. tick' \in Nat /\ UNCHANGED <<prio, reaped>> /\ prepare_to_switch(find_next_run_task)
    BY <1>7 DEF Schedule, TypeOK
  <2> QED  BY <2>1, FindNext, Switch
<1>8. CASE TickEnter
  <2>1. tick' = 1 /\ UNCHANGED <<state, prio, wait_time, time_out, run_time, q, current, next_run, reaped>>
    BY <1>8 DEF TickEnter
  <2>2. TypeOK' /\ OneListPerState'
    BY <2>1 DEF TypeOK, OneListPerState
  <2> QED  BY <2>1, <2>2 DEF RunningIsCurrent, SliceArmed
<1>9. CASE TickSleeper
  <2> DEFINE t == q.sleep.list[tick]
             w == IF wait_time[t] > 0 THEN wait_time[t] - 1 ELSE wait_time[t]
  <2>1. /\ tick \in 1 .. Len(q.sleep.list)
        /\ wait_time' = [wait_time EXCEPT ![t] = w]
        /\ IF w = 0
           THEN set_task_state(t, state[t], "PREPARE") /\ UNCHANGED tick
           ELSE tick' = tick + 1 /\ UNCHANGED <<q, state>>
        /\ UNCHANGED <<prio, time_out, run_time, current, next_run, reaped>>
    BY <1>9 DEF TickSleeper
  <2>2. q.sleep.list \in Seq(Tasks) /\ Len(q.sleep.list) \in Nat
    BY DEF TypeOK, SchedList
  <2>3. t \in Tasks /\ On(q.sleep, t)
    BY <2>1, <2>2 DEF On
  <2>4. state[t] = "SLEEP"
    BY <2>3 DEF OneListPerState, Filed
  <2>5. w \in Int /\ wait_time' \in [Tasks -> Int]
    BY <2>1, <2>3 DEF TypeOK
  <2> HIDE DEF t, w
  <2>6. CASE w = 0
    BY <2>1, <2>3, <2>4, <2>5, <2>6, MoveIInv DEF TypeOK, SliceArmed
  <2>7. CASE w # 0
    <3>1. tick' \in Nat /\ UNCHANGED <<q, state, prio, time_out, run_time, current, next_run, reaped>>
      BY <2>1, <2>7 DEF TypeOK
    <3>2. TypeOK' /\ OneListPerState'
      BY <3>1, <2>5 DEF TypeOK, OneListPerState
    <3> QED  BY <3>1, <3>2 DEF RunningIsCurrent, SliceArmed
  <2> QED  BY <2>6, <2>7
<1>10. CASE TickSlice
  <2>1. tick' \in Nat /\ UNCHANGED <<prio, reaped>> /\ prepare_to_switch(find_next_run_task)
    BY <1>10 DEF TickSlice, SliceArmed
  <2> QED  BY <2>1, FindNext, Switch
<1>11. CASE UNCHANGED schedVars
  BY <1>11 DEF schedVars, TypeOK, OneListPerState, RunningIsCurrent, SliceArmed
<1> QED
  BY <1>1, <1>2, <1>3, <1>4, <1>5, <1>6, <1>7, <1>8, <1>9, <1>10, <1>11 DEF SchedNext

\* No step moves an IDLE task to another state or gives it the CPU.
LEMMA NextNeverResumed ==
  IInv /\ [SchedNext]_schedVars => [NeverResumed]_schedVars
<1> SUFFICES ASSUME IInv, SchedNext, NEW t \in Tasks, state[t] = "IDLE"
             PROVE  state'[t] = "IDLE" /\ (current' = t => current = t)
  BY DEF NeverResumed
<1> USE DEF IInv
<1>0. state \in [Tasks -> States] /\ current \in Tasks /\ next_run = current
  BY DEF TypeOK, SliceArmed
<1>a. ASSUME NEW u \in Tasks, NEW new, set_task_state(u, state[u], new)
      PROVE  state'[t] = "IDLE"
  BY <1>0, <1>a DEF set_task_state, set_task_state_st, get_state_change, change_table
<1>b. ASSUME NEW next \in Tasks, next = current \/ state[next] = "PREPARE",
             prepare_to_switch(next)
      PROVE  state'[t] = "IDLE" /\ (current' = t => current = t)
  <2>1. CASE next = current
    BY <1>b, <2>1 DEF prepare_to_switch
  <2>2. CASE next # current
    <3> DEFINE st1 == IF state[current] = "RUNNING"
                      THEN set_task_state_st(state, current, state[current], "PREPARE")
                      ELSE state
    <3>1. st1 \in [Tasks -> States] /\ st1[t] = "IDLE"
      BY <1>0 DEF set_task_state_st, get_state_change, change_table, States
    <3>2. state' = set_task_state_st(st1, next, st1[next], "RUNNING") /\ current' = next
      BY <1>b, <2>2 DEF prepare_to_switch
    <3> HIDE DEF st1
    <3>3. next # t
      BY <1>b, <2>2
    <3>4. state'[t] = "IDLE"
      BY <3>1, <3>2, <3>3 DEF set_task_state_st
    <3> QED  BY <3>2, <3>3, <3>4
  <2> QED  BY <2>1, <2>2
<1>1. ASSUME NEW u \in Tasks, NEW p \in Prios, CreateTask(u, p)
      PROVE  state'[t] = "IDLE" /\ current' = current
  BY <1>0, <1>1 DEF CreateTask, set_task_state_st
<1>2. ASSUME NEW u \in Tasks,
             \/ \E n \in Timeouts : SuspendTask(u, n)
             \/ WakeupTask(u)
             \/ StopTask(u)
      PROVE  state'[t] = "IDLE" /\ current' = current
  BY <1>2, <1>a DEF SuspendTask, WakeupTask, StopTask
<1>3. ASSUME NEW u \in Tasks, RemoveTask(u) \/ \E p \in Prios : SetTaskPrio(u, p)
      PROVE  state'[t] = "IDLE" /\ current' = current
  BY <1>3 DEF RemoveTask, SetTaskPrio
<1>4. CASE Schedule
  BY <1>4, <1>b, FindNext DEF Schedule
<1>5. CASE TickEnter
  BY <1>5 DEF TickEnter
<1>6. CASE TickSleeper
  <2>1. q.sleep.list \in Seq(Tasks) /\ tick \in 1 .. Len(q.sleep.list)
    BY <1>6 DEF TypeOK, SchedList, TickSleeper
  <2>2. q.sleep.list[tick] \in Tasks
    BY <2>1
  <2> QED  BY <1>6, <2>2, <1>a DEF TickSleeper
<1>7. CASE TickSlice
  BY <1>7, <1>b, FindNext DEF TickSlice, SliceArmed
<1> QED
  BY <1>1, <1>2, <1>3, <1>4, <1>5, <1>6, <1>7 DEF SchedNext

\* The inductive invariant holds in every reachable state.
THEOREM Inductive == SchedSpec => []IInv
<1>1. SchedInit => IInv
  BY InitIInv
<1>2. IInv /\ [SchedNext]_schedVars => IInv'
  BY NextIInv
<1> QED  BY <1>1, <1>2, PTL DEF SchedSpec

\* Type correctness of the scheduler.
THEOREM TypeCorrect == SchedSpec => []TypeOK
<1>1. IInv => TypeOK
  BY DEF IInv
<1> QED  BY <1>1, Inductive, PTL

\* Whatever clients do with the interface, for any number of tasks and
\* priorities: each task is linked exactly on the list of its state and on the
\* system list, and the counters are the lengths (Documents/sched.txt).
THEOREM OneList == SchedSpec => []OneListPerState
<1>1. IInv => OneListPerState
  BY DEF IInv
<1> QED  BY <1>1, Inductive, PTL

\* No two tasks are RUNNING; the one that is owns the CPU.
THEOREM OneRunning == SchedSpec => []RunningIsCurrent
<1>1. IInv => RunningIsCurrent
  BY DEF IInv
<1> QED  BY <1>1, Inductive, PTL

\* Every tick finds a slice that ends with it, so every tick reschedules.
THEOREM EveryTickReschedules == SchedSpec => []SliceArmed
<1>1. IInv => SliceArmed
  BY DEF IInv
<1> QED  BY <1>1, Inductive, PTL

\* An IDLE task never leaves that state and never gets the CPU back.
THEOREM IdleFinal == SchedSpec => IdleIsFinal
<1>1. IInv /\ [SchedNext]_schedVars => [NeverResumed]_schedVars
  BY NextNeverResumed
<1> QED  BY <1>1, Inductive, PTL DEF SchedSpec, IdleIsFinal

=============================================================================
