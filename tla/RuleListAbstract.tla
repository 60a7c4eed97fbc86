--------------------------- MODULE RuleListAbstract ---------------------------
(***************************************************************************)
(* What the refreshable rule-list filter promises (spec sections 4.2 and  *)
(* 9): every DNSResult answers from one whole engine snapshot, the one    *)
(* installed at the instant it answers, and Refresh replaces the snapshot *)
(* wholesale.  There is no cache and no lock: answering and installing    *)
(* are atomic.                                                            *)
(***************************************************************************)
CONSTANTS
    Hosts,      \* the hosts queried
    RuleTexts,  \* the rule lists the fetcher may return, as engines
    Readers     \* the goroutines calling DNSResult

VARIABLES
    engine,  \* the installed snapshot: the set of hosts its rules match
    answer   \* per reader: {} or {the answer it is about to return}

vars == <<engine, answer>>

Answers == [host : Hosts, match : BOOLEAN]

TypeOK ==
    /\ engine \in SUBSET Hosts
    /\ answer \in [Readers -> SUBSET Answers]

Init ==
    /\ engine = {}
    /\ answer = [r \in Readers |-> {}]

(* DNSResult decides its outcome from the current snapshot.               *)
Answer(r, h) ==
    /\ answer[r] = {}
    /\ answer' = [answer EXCEPT ![r] = {[host |-> h, match |-> h \in engine]}]
    /\ UNCHANGED engine

(* DNSResult returns.                                                     *)
Return(r) ==
    /\ answer[r] # {}
    /\ answer' = [answer EXCEPT ![r] = {}]
    /\ UNCHANGED engine

(* A successful Refresh installs a new snapshot.                          *)
Install(t) ==
    /\ engine' = t
    /\ UNCHANGED answer

Next ==
    \/ \E r \in Readers, h \in Hosts : Answer(r, h)
    \/ \E r \in Readers : Return(r)
    \/ \E t \in RuleTexts : Install(t)

Spec == Init /\ [][Next]_vars

=============================================================================
