---------------------------- MODULE PolicyProofs ----------------------------
(***************************************************************************)
(* Proofs about the policies that the agbot follows.  DeploymentPolicies,  *)
(* for any policies, patterns and goroutines: the events that the two      *)
(* managers send lead the policy manager to what they hold, and an         *)
(* agreement does not outlive its policy unless it was being made while    *)
(* the deletion was handled.  ModelObjects, for any objects, nodes,        *)
(* services and workers: an object that is published once reaches every    *)
(* node that is entitled to it.                                            *)
(***************************************************************************)
EXTENDS DeploymentPolicies, ModelObjects, FiniteSetTheorems, SequenceTheorems,
        WellFoundedInduction, TLAPS

-----------------------------------------------------------------------------
(* The policies that the agbot follows. *)

\* The events that tell the policy manager about the policy n.
About(c, n) == c.kind \in {"policyChanged", "policyDeleted"} /\ c.name = n

\* The events q lead the policy manager from one version of n to another: the
\* last event about n has the latter.
Leads(q, n, from, to) ==
  /\ (\A i \in DOMAIN q : ~About(q[i], n)) => from = to
  /\ \A i \in DOMAIN q : (About(q[i], n) /\ \A j \in DOMAIN q : i < j => ~About(q[j], n)) => q[i].ver = to

\* The version that the managers hold of n.
Held(n) == IF n \in Policies THEN entries[n].ver ELSE watched[n]

ViewFollows == \A n \in Names : Leads(commands, n, pm[n], Held(n))

DeletionAhead(q) == \E i \in DOMAIN q : q[i].kind = "policyDeleted"

\* A deletion is still to be handled while an agreement has no policy, unless
\* the agreement was being made when one was handled.
DealsFollow ==
  \A n \in Names : pm[n] = 0 =>
    \/ DeletionAhead(commands)
    \/ \A a \in {making[n], deals[n]} : a = NoAgreement \/ a.late

MadeForPolicy == \A n \in Names : making[n] # NoAgreement => making[n].ver # 0

PolicyInv == PoliciesTypeOK /\ ViewFollows /\ DealsFollow /\ MadeForPolicy

-----------------------------------------------------------------------------
(* The queue of commands. *)

LEMMA CommandFacts ==
  ASSUME NEW c \in Commands
  PROVE  /\ c.kind \in {"policyChanged", "policyDeleted"} => c.name \in Names /\ c.ver \in Versions
         /\ c.kind = "policyChanged" => c.ver # 0
         /\ c.kind = "policyDeleted" => c.ver = 0
         /\ c.kind \in {"cacheSvcPolicy", "svcPolicyChanged", "svcPolicyDeleted"}
              => c.name \in Policies /\ c.ver \in SvcVersions
BY PolicyBounds DEF Commands, Versions

LEMMA LeadsTail ==
  ASSUME NEW q \in Seq(Commands), q # <<>>, NEW n, NEW from, NEW to, Leads(q, n, from, to)
  PROVE  Leads(Tail(q), n, IF About(Head(q), n) THEN Head(q).ver ELSE from, to)
<1>1. /\ Tail(q) \in Seq(Commands) /\ Len(Tail(q)) = Len(q) - 1 /\ Len(q) \in Nat \ {0}
      /\ DOMAIN q = 1..Len(q) /\ DOMAIN Tail(q) = 1..Len(Tail(q))
      /\ \A i \in 1..Len(Tail(q)) : Tail(q)[i] = q[i + 1]
      /\ Head(q) = q[1]
  BY HeadTailProperties, LenProperties, EmptySeq
<1>2. ASSUME NEW i \in DOMAIN Tail(q), About(Tail(q)[i], n),
             \A j \in DOMAIN Tail(q) : i < j => ~About(Tail(q)[j], n)
      PROVE  Tail(q)[i].ver = to
  <2>1. i + 1 \in DOMAIN q /\ About(q[i + 1], n)
    BY <1>1, <1>2
  <2>2. ASSUME NEW j \in DOMAIN q, i + 1 < j PROVE ~About(q[j], n)
    <3>1. j - 1 \in DOMAIN Tail(q) /\ i < j - 1 /\ Tail(q)[j - 1] = q[j]
      BY <1>1, <2>2
    <3> QED BY <3>1, <1>2
  <2>3. q[i + 1].ver = to
    BY <2>1, <2>2 DEF Leads
  <2> QED BY <2>3, <1>1
<1>3. ASSUME \A i \in DOMAIN Tail(q) : ~About(Tail(q)[i], n)
      PROVE  (IF About(Head(q), n) THEN Head(q).ver ELSE from) = to
  <2>1. ASSUME NEW j \in DOMAIN q, 1 < j PROVE ~About(q[j], n)
    <3>1. j - 1 \in DOMAIN Tail(q) /\ Tail(q)[j - 1] = q[j]
      BY <1>1, <2>1
    <3> QED BY <3>1, <1>3
  <2>2. CASE About(Head(q), n)
    <3>1. 1 \in DOMAIN q /\ About(q[1], n)
      BY <1>1, <2>2
    <3>2. q[1].ver = to
      BY <3>1, <2>1 DEF Leads
    <3> QED BY <3>2, <2>2, <1>1
  <2>3. CASE ~About(Head(q), n)
    <3>1. \A i \in DOMAIN q : ~About(q[i], n)
      <4> SUFFICES ASSUME NEW i \in DOMAIN q PROVE ~About(q[i], n)
        OBVIOUS
      <4>1. i = 1 \/ 1 < i
        BY <1>1
      <4> QED BY <4>1, <2>1, <2>3, <1>1
    <3>2. from = to
      BY <3>1 DEF Leads
    <3> QED BY <3>2, <2>3
  <2> QED BY <2>2, <2>3
<1> QED BY <1>2, <1>3 DEF Leads

LEMMA DeletionTail ==
  ASSUME NEW q \in Seq(Commands), q # <<>>, Head(q).kind # "policyDeleted", DeletionAhead(q)
  PROVE  DeletionAhead(Tail(q))
<1>1. /\ Tail(q) \in Seq(Commands) /\ Len(Tail(q)) = Len(q) - 1 /\ Len(q) \in Nat
      /\ DOMAIN q = 1..Len(q) /\ DOMAIN Tail(q) = 1..Len(Tail(q))
      /\ \A i \in 1..Len(Tail(q)) : Tail(q)[i] = q[i + 1]
      /\ Head(q) = q[1]
  BY HeadTailProperties, LenProperties, EmptySeq
<1>2. PICK i \in DOMAIN q : q[i].kind = "policyDeleted"
  BY DEF DeletionAhead
<1>3. i - 1 \in DOMAIN Tail(q) /\ Tail(q)[i - 1] = q[i]
  BY <1>1, <1>2
<1> QED BY <1>2, <1>3 DEF DeletionAhead

\* The sequence s has the commands M, each at least once, and no others.
Carries(s, M) == s \in Seq(M) /\ \A c \in M : \E i \in DOMAIN s : s[i] = c

LEMMA ArrangedCarries ==
  ASSUME NEW M, IsFiniteSet(M), NEW s \in SetToSeqs(M)
  PROVE  Carries(s, M)
<1>1. Cardinality(M) \in Nat
  BY FS_CardinalityType
<1>2. s \in [1..Cardinality(M) -> M] /\ \A i, j \in 1..Cardinality(M) : i # j => s[i] # s[j]
  BY Zenon DEF SetToSeqs
<1>3. s \in Seq(M) /\ DOMAIN s = 1..Cardinality(M)
  BY <1>1, <1>2
<1>4. ASSUME NEW c \in M, \A i \in DOMAIN s : s[i] # c PROVE FALSE
  <2> DEFINE D == 1..Cardinality(M)
             T == M \ {c}
  <2>1. IsFiniteSet(T) /\ Cardinality(T) = Cardinality(M) - 1
    BY FS_RemoveElement
  <2>2. IsFiniteSet(D) /\ Cardinality(D) = Cardinality(M)
    BY <1>1, FS_Interval
  <2>3. s \in [D -> T]
    BY <1>2, <1>3, <1>4
  <2>4. Cardinality(T) < Cardinality(D)
    BY <1>1, <2>1, <2>2
  <2>5. \A i, j \in D : i # j => s[i] # s[j]
    BY <1>2
  <2> HIDE DEF D, T
  <2>6. \E x, y \in D : x # y /\ s[x] = s[y]
    BY <2>1, <2>2, <2>3, <2>4, FS_PigeonHole
  <2> QED BY <2>5, <2>6
<1> QED BY <1>3, <1>4 DEF Carries

LEMMA TwiceCarries ==
  ASSUME NEW M, NEW s, Carries(s, M)
  PROVE  Carries(Twice(s), M)
<1>1. s \in Seq(M) /\ Len(s) \in Nat /\ DOMAIN s = 1..Len(s) /\ \A i \in 1..Len(s) : s[i] \in M
  BY ElementOfSeq, LenProperties DEF Carries
<1>2. \A i \in 1..(2 * Len(s)) : (i + 1) \div 2 \in 1..Len(s)
  BY <1>1
<1>3. Twice(s) \in [1..(2 * Len(s)) -> M] /\ 2 * Len(s) \in Nat
  BY <1>1, <1>2 DEF Twice
<1>4. Twice(s) \in Seq(M)
  BY <1>3
<1>5. ASSUME NEW c \in M PROVE \E i \in DOMAIN Twice(s) : Twice(s)[i] = c
  <2>1. PICK i \in DOMAIN s : s[i] = c
    BY DEF Carries
  <2>2. 2 * i \in 1..(2 * Len(s)) /\ (2 * i + 1) \div 2 = i
    BY <1>1, <2>1
  <2> QED BY <2>1, <2>2, <1>3 DEF Twice
<1> QED BY <1>4, <1>5 DEF Carries

LEMMA BothCarry ==
  ASSUME NEW M, NEW N, NEW s, NEW t, Carries(s, M), Carries(t, N)
  PROVE  Carries(s \o t, M \cup N)
<1>1. s \in Seq(M \cup N) /\ t \in Seq(M \cup N)
  BY SeqMonotonic DEF Carries
<1>2. /\ s \o t \in Seq(M \cup N) /\ Len(s \o t) = Len(s) + Len(t)
      /\ \A i \in 1..Len(s) + Len(t) : (s \o t)[i] = IF i <= Len(s) THEN s[i] ELSE t[i - Len(s)]
  BY <1>1, ConcatProperties
<1>3. /\ Len(s) \in Nat /\ Len(t) \in Nat /\ DOMAIN s = 1..Len(s) /\ DOMAIN t = 1..Len(t)
      /\ DOMAIN (s \o t) = 1..(Len(s) + Len(t))
  BY <1>1, <1>2, LenProperties
<1>4. ASSUME NEW c \in M PROVE \E i \in DOMAIN (s \o t) : (s \o t)[i] = c
  <2>1. PICK i \in DOMAIN s : s[i] = c
    BY DEF Carries
  <2>2. i \in 1..Len(s) + Len(t) /\ i <= Len(s)
    BY <1>3, <2>1
  <2> QED BY <2>1, <2>2, <1>2, <1>3
<1>5. ASSUME NEW c \in N PROVE \E i \in DOMAIN (s \o t) : (s \o t)[i] = c
  <2>1. PICK i \in DOMAIN t : t[i] = c
    BY DEF Carries
  <2>2. i + Len(s) \in 1..Len(s) + Len(t) /\ ~(i + Len(s) <= Len(s)) /\ (i + Len(s)) - Len(s) = i
    BY <1>3, <2>1
  <2> QED BY <2>1, <2>2, <1>2, <1>3
<1> QED BY <1>2, <1>4, <1>5 DEF Carries

LEMMA SentLeads ==
  ASSUME NEW q \in Seq(Commands), NEW M, M \subseteq Commands, NEW s, Carries(s, M),
         NEW n, NEW from, NEW to,
         \/ (\A c \in M : ~About(c, n)) /\ Leads(q, n, from, to)
         \/ (\E c \in M : About(c, n)) /\ \A c \in M : About(c, n) => c.ver = to
  PROVE  Leads(q \o s, n, from, to)
<1>1. s \in Seq(Commands) /\ \A i \in DOMAIN s : s[i] \in M
  BY SeqMonotonic, ElementOfSeq, LenProperties DEF Carries
<1>2. /\ q \o s \in Seq(Commands) /\ Len(q \o s) = Len(q) + Len(s)
      /\ \A i \in 1..Len(q) + Len(s) : (q \o s)[i] = IF i <= Len(q) THEN q[i] ELSE s[i - Len(q)]
  BY <1>1, ConcatProperties
<1>3. /\ Len(q) \in Nat /\ Len(s) \in Nat /\ DOMAIN q = 1..Len(q) /\ DOMAIN s = 1..Len(s)
      /\ DOMAIN (q \o s) = 1..(Len(q) + Len(s))
  BY <1>1, <1>2, LenProperties
<1>4. ASSUME NEW i \in DOMAIN q PROVE i \in DOMAIN (q \o s) /\ (q \o s)[i] = q[i]
  BY <1>2, <1>3, <1>4
<1>5. ASSUME NEW i \in DOMAIN (q \o s), i \notin DOMAIN q
      PROVE  i - Len(q) \in DOMAIN s /\ (q \o s)[i] = s[i - Len(q)] /\ (q \o s)[i] \in M
  BY <1>1, <1>2, <1>3, <1>5
<1>6. CASE (\A c \in M : ~About(c, n)) /\ Leads(q, n, from, to)
  <2>1. ASSUME \A i \in DOMAIN (q \o s) : ~About((q \o s)[i], n) PROVE from = to
    BY <2>1, <1>4, <1>6 DEF Leads
  <2>2. ASSUME NEW i \in DOMAIN (q \o s), About((q \o s)[i], n),
               \A j \in DOMAIN (q \o s) : i < j => ~About((q \o s)[j], n)
        PROVE  (q \o s)[i].ver = to
    <3>1. i \in DOMAIN q /\ About(q[i], n)
      BY <2>2, <1>4, <1>5, <1>6
    <3>2. \A j \in DOMAIN q : i < j => ~About(q[j], n)
      BY <2>2, <1>4
    <3>3. q[i].ver = to
      BY <3>1, <3>2, <1>6 DEF Leads
    <3> QED BY <3>1, <3>3, <1>4
  <2> QED BY <2>1, <2>2 DEF Leads
<1>7. CASE (\E c \in M : About(c, n)) /\ \A c \in M : About(c, n) => c.ver = to
  <2>1. PICK k \in DOMAIN s : About(s[k], n)
    BY <1>7 DEF Carries
  <2>2. k + Len(q) \in DOMAIN (q \o s) /\ (q \o s)[k + Len(q)] = s[k] /\ \A i \in DOMAIN q : i < k + Len(q)
    BY <2>1, <1>2, <1>3
  <2>3. ASSUME NEW i \in DOMAIN (q \o s), About((q \o s)[i], n),
               \A j \in DOMAIN (q \o s) : i < j => ~About((q \o s)[j], n)
        PROVE  (q \o s)[i].ver = to
    <3>1. i \notin DOMAIN q
      BY <2>1, <2>2, <2>3
    <3> QED BY <3>1, <2>3, <1>5, <1>7
  <2> QED BY <2>1, <2>2, <2>3 DEF Leads
<1> QED BY <1>6, <1>7

LEMMA SentDeletion ==
  ASSUME NEW q \in Seq(Commands), NEW M, M \subseteq Commands, NEW s, Carries(s, M),
         DeletionAhead(q) \/ \E c \in M : c.kind = "policyDeleted"
  PROVE  DeletionAhead(q \o s)
<1>1. s \in Seq(Commands)
  BY SeqMonotonic DEF Carries
<1>2. /\ q \o s \in Seq(Commands) /\ Len(q \o s) = Len(q) + Len(s)
      /\ \A i \in 1..Len(q) + Len(s) : (q \o s)[i] = IF i <= Len(q) THEN q[i] ELSE s[i - Len(q)]
  BY <1>1, ConcatProperties
<1>3. /\ Len(q) \in Nat /\ Len(s) \in Nat /\ DOMAIN q = 1..Len(q) /\ DOMAIN s = 1..Len(s)
      /\ DOMAIN (q \o s) = 1..(Len(q) + Len(s))
  BY <1>1, <1>2, LenProperties
<1>4. CASE DeletionAhead(q)
  BY <1>4, <1>2, <1>3 DEF DeletionAhead
<1>5. CASE \E c \in M : c.kind = "policyDeleted"
  <2>1. PICK k \in DOMAIN s : s[k].kind = "policyDeleted"
    BY <1>5 DEF Carries
  <2>2. k + Len(q) \in DOMAIN (q \o s) /\ (q \o s)[k + Len(q)] = s[k]
    BY <2>1, <1>2, <1>3
  <2> QED BY <2>1, <2>2 DEF DeletionAhead
<1> QED BY <1>4, <1>5

-----------------------------------------------------------------------------
(* What a step may do to the queue without touching the view. *)
Keeps(q, r) ==
  /\ r \in Seq(Commands)
  /\ \A n \in Names : \A from, to \in Versions : Leads(q, n, from, to) => Leads(r, n, from, to)
  /\ DeletionAhead(q) => DeletionAhead(r)

OtherKind(c) == c.kind \notin {"policyChanged", "policyDeleted"}

LEMMA KeepsSent ==
  ASSUME NEW q \in Seq(Commands), NEW M, M \subseteq Commands, \A c \in M : OtherKind(c),
         NEW s, Carries(s, M)
  PROVE  Keeps(q, q \o s)
<1>1. q \o s \in Seq(Commands)
  BY SeqMonotonic, ConcatProperties DEF Carries
<1>2. ASSUME NEW n \in Names, NEW from \in Versions, NEW to \in Versions, Leads(q, n, from, to)
      PROVE  Leads(q \o s, n, from, to)
  <2>1. \A c \in M : ~About(c, n)
    BY DEF OtherKind, About
  <2> QED BY <2>1, <1>2, SentLeads
<1>3. DeletionAhead(q) => DeletionAhead(q \o s)
  BY SentDeletion
<1> QED BY <1>1, <1>2, <1>3 DEF Keeps

LEMMA OneCarried == ASSUME NEW c PROVE Carries(<<c>>, {c})
<1>1. <<c>> \in Seq({c}) /\ 1 \in DOMAIN <<c>> /\ <<c>>[1] = c
  OBVIOUS
<1> QED BY <1>1 DEF Carries

LEMMA NoneCarried == Carries(<<>>, {})
BY EmptySeq DEF Carries

LEMMA KeepsAppend ==
  ASSUME NEW q \in Seq(Commands), NEW c \in Commands, OtherKind(c)
  PROVE  Keeps(q, Append(q, c))
<1>1. Append(q, c) = q \o <<c>>
  BY AppendIsConcat
<1>2. Keeps(q, q \o <<c>>)
  BY OneCarried, KeepsSent
<1> QED BY <1>1, <1>2

LEMMA KeepsTail ==
  ASSUME NEW q \in Seq(Commands), q # <<>>, OtherKind(Head(q))
  PROVE  Keeps(q, Tail(q))
<1>1. Tail(q) \in Seq(Commands)
  BY HeadTailProperties
<1>2. \A n : ~About(Head(q), n)
  BY DEF OtherKind, About
<1>3. ASSUME NEW n \in Names, NEW from \in Versions, NEW to \in Versions, Leads(q, n, from, to)
      PROVE  Leads(Tail(q), n, from, to)
  <2>1. Leads(Tail(q), n, IF About(Head(q), n) THEN Head(q).ver ELSE from, to)
    BY <1>3, LeadsTail
  <2> QED BY <2>1, <1>2
<1>4. DeletionAhead(q) => DeletionAhead(Tail(q))
  BY DeletionTail DEF OtherKind
<1> QED BY <1>1, <1>3, <1>4 DEF Keeps

LEMMA KeepsItself == ASSUME NEW q \in Seq(Commands) PROVE Keeps(q, q)
BY DEF Keeps

LEMMA KeepsOn ==
  ASSUME NEW q, NEW r, NEW s, Keeps(q, r), Keeps(r, s)
  PROVE  Keeps(q, s)
BY DEF Keeps

LEMMA HeldType == PoliciesTypeOK => \A n \in Names : Held(n) \in Versions /\ pm[n] \in Versions
BY DEF PoliciesTypeOK, Held, Names

\* A step that leaves the policies alone keeps the view, and the deals as long
\* as it makes none for a policy that is gone.
LEMMA SameView ==
  ASSUME PolicyInv, Keeps(commands, commands'), pm' = pm, \A n \in Names : Held(n)' = Held(n),
         \A n \in Names : pm[n] # 0 \/ \A a \in {making[n], deals[n]}' :
                            a = NoAgreement \/ a.late \/ a \in {making[n], deals[n]}
  PROVE  ViewFollows' /\ DealsFollow'
<1>1. ViewFollows'
  <2> SUFFICES ASSUME NEW n \in Names PROVE Leads(commands', n, pm[n], Held(n))
    BY DEF ViewFollows
  <2>1. Held(n) \in Versions /\ pm[n] \in Versions
    BY HeldType DEF PolicyInv
  <2>2. Leads(commands, n, pm[n], Held(n))
    BY DEF PolicyInv, ViewFollows
  <2> QED BY <2>1, <2>2 DEF Keeps
<1>2. DealsFollow'
  <2> SUFFICES ASSUME NEW n \in Names, pm[n] = 0, ~DeletionAhead(commands')
               PROVE  \A a \in {making[n], deals[n]}' : a = NoAgreement \/ a.late
    BY DEF DealsFollow
  <2>1. ~DeletionAhead(commands)
    BY DEF Keeps
  <2>2. \A a \in {making[n], deals[n]} : a = NoAgreement \/ a.late
    BY <2>1 DEF PolicyInv, DealsFollow
  <2> QED BY <2>2
<1> QED BY <1>1, <1>2

-----------------------------------------------------------------------------
(* Updates of the business policy manager. *)
Entries == [hash : Versions, ver : Versions, svc : SvcVersions \cup {-1}]

Outcome(o, p) ==
  /\ o.entry \in Entries /\ o.ver \in Versions
  /\ o.told \subseteq Commands /\ IsFiniteSet(o.told)
  /\ \A c \in o.told : About(c, p) /\ c.ver = o.entry.ver
  /\ o.told = {} => o.entry.ver = entries[p].ver /\ o.ver = pm[p]
  /\ o.ver = 0 /\ pm[p] # 0 => \E c \in o.told : c.kind = "policyDeleted"

LEMMA EntryTypes ==
  /\ NoEntry \in Entries /\ NoEntry.ver = 0
  /\ \A v \in Versions : [hash |-> v, ver |-> v, svc |-> -1] \in Entries
  /\ \A e \in Entries, v \in Versions : UpdateEntry(e, v) \in Entries
  /\ 0 \in Versions
BY PolicyBounds DEF NoEntry, Entries, UpdateEntry, Versions

LEMMA UntouchedOutcome ==
  ASSUME PoliciesTypeOK, NEW p \in Policies
  PROVE  Outcome(Untouched(p), p)
<1>1. entries[p] \in Entries /\ pm[p] \in Versions
  BY DEF PoliciesTypeOK, Entries, Names
<1> QED BY <1>1, FS_EmptySet DEF Outcome, Untouched

LEMMA DeleteOutcome ==
  ASSUME PoliciesTypeOK, NEW p \in Policies
  PROVE  Outcome(deleteBusinessPolicy(p), p)
<1>1. CASE entries[p] = NoEntry
  BY <1>1, UntouchedOutcome DEF deleteBusinessPolicy
<1>2. CASE entries[p] # NoEntry
  <2> DEFINE c == Cmd("policyDeleted", p, 0)
  <2>1. c \in Commands /\ About(c, p) /\ c.ver = 0 /\ c.kind = "policyDeleted"
    BY DEF Commands, Cmd, About, Names
  <2> HIDE DEF c
  <2>2. deleteBusinessPolicy(p) = [entry |-> NoEntry, ver |-> 0, told |-> {c}]
    BY <1>2 DEF deleteBusinessPolicy, c
  <2>3. IsFiniteSet({c})
    BY FS_Singleton
  <2> QED BY <2>1, <2>2, <2>3, EntryTypes DEF Outcome
<1> QED BY <1>1, <1>2

LEMMA ChangeOutcome ==
  ASSUME NEW p \in Policies, NEW v \in Versions \ {0}, NEW e \in Entries, e.ver = v,
         NEW w \in Versions \ {0}
  PROVE  Outcome([entry |-> e, ver |-> w, told |-> {Cmd("policyChanged", p, v)}], p)
<1> DEFINE c == Cmd("policyChanged", p, v)
<1>1. c \in Commands /\ About(c, p) /\ c.ver = v
  BY DEF Commands, Cmd, About, Names
<1> HIDE DEF c
<1>2. IsFiniteSet({c})
  BY FS_Singleton
<1>3. Outcome([entry |-> e, ver |-> w, told |-> {c}], p)
  BY <1>1, <1>2 DEF Outcome
<1> QED BY <1>3 DEF c

LEMMA UpdateOutcome ==
  ASSUME PoliciesTypeOK, NEW p \in Policies, NEW v \in Versions \ {0}
  PROVE  Outcome(updateBusinessPolicy(p, v), p)
<1> DEFINE e == entries[p]
<1>1. e \in Entries /\ pm[p] \in Versions
  BY DEF PoliciesTypeOK, Entries, Names
<1> HIDE DEF e
<1>2. CASE (e = NoEntry /\ v \in BadVersions) \/ (e # NoEntry /\ e.hash = v)
  <2>1. updateBusinessPolicy(p, v) = Untouched(p)
    BY <1>2 DEF updateBusinessPolicy, e
  <2> QED BY <2>1, UntouchedOutcome
<1>3. CASE e = NoEntry /\ v \notin BadVersions
  <2> DEFINE f == [hash |-> v, ver |-> v, svc |-> -1]
             w == IF pm[p] = 0 THEN v ELSE pm[p]
  <2>1. updateBusinessPolicy(p, v) = [entry |-> f, ver |-> w, told |-> {Cmd("policyChanged", p, v)}]
    BY <1>3 DEF updateBusinessPolicy, e
  <2>2. f \in Entries /\ f.ver = v /\ w \in Versions \ {0}
    BY EntryTypes, <1>1
  <2> HIDE DEF f, w
  <2> QED BY <2>1, <2>2, ChangeOutcome
<1>4. CASE e # NoEntry /\ e.hash # v /\ v \in BadVersions
  <2>1. updateBusinessPolicy(p, v) = [Untouched(p) EXCEPT !.entry = UpdateEntry(e, v)]
    BY <1>4 DEF updateBusinessPolicy, e
  <2>2. updateBusinessPolicy(p, v) = [entry |-> UpdateEntry(e, v), ver |-> pm[p], told |-> {}]
    BY <2>1 DEF Untouched
  <2>3. UpdateEntry(e, v) \in Entries /\ UpdateEntry(e, v).ver = entries[p].ver
    BY <1>1, <1>4, EntryTypes DEF UpdateEntry, e
  <2> QED BY <2>2, <2>3, <1>1, FS_EmptySet DEF Outcome
<1>5. CASE e # NoEntry /\ e.hash # v /\ v \notin BadVersions
  <2>1. updateBusinessPolicy(p, v) = [entry |-> UpdateEntry(e, v), ver |-> v, told |-> {Cmd("policyChanged", p, v)}]
    BY <1>5 DEF updateBusinessPolicy, e
  <2>2. UpdateEntry(e, v) \in Entries /\ UpdateEntry(e, v).ver = v
    BY <1>1, <1>5, EntryTypes DEF UpdateEntry
  <2> QED BY <2>1, <2>2, ChangeOutcome
<1> QED BY <1>2, <1>3, <1>4, <1>5

LEMMA GatheredCarries ==
  ASSUME NEW S, IsFiniteSet(S), NEW out, \A p \in S : IsFiniteSet(out[p].told),
         NEW s \in InAnyOrder(out, S)
  PROVE  Carries(s, UNION {out[p].told : p \in S})
<1> DEFINE T == {out[p].told : p \in S}
           f == [p \in S |-> out[p].told]
<1>1. f \in Surjection(S, T)
  BY DEF Surjection
<1>2. IsFiniteSet(T)
  BY <1>1, FS_Surjection
<1>3. IsFiniteSet(UNION T)
  BY <1>2, FS_UNION
<1>4. s \in SetToSeqs(UNION T)
  BY DEF InAnyOrder
<1> HIDE DEF T
<1>5. Carries(s, UNION T)
  BY <1>3, <1>4, ArrangedCarries
<1> QED BY <1>5 DEF T

LEMMA Applied ==
  ASSUME PolicyInv, NEW q \in Seq(Commands), Keeps(commands, q),
         NEW out, \A p \in Policies : Outcome(out[p], p), Apply(out),
         NEW s, Carries(s, UNION {out[p].told : p \in Policies}), commands' = q \o s,
         watched' = watched, making' = making, deals' = deals
  PROVE  /\ entries' \in [Policies -> Entries] /\ pm' \in [Names -> Versions]
         /\ commands' \in Seq(Commands) /\ ViewFollows' /\ DealsFollow'
<1> DEFINE M == UNION {out[p].told : p \in Policies}
<1>1. /\ M \subseteq Commands
      /\ \A c \in M : \E p \in Policies : c \in out[p].told
      /\ \A p \in Policies : out[p].told \subseteq M
  BY DEF Outcome
<1>2. Carries(s, M)
  OBVIOUS
<1> HIDE DEF M
<1>3. commands' \in Seq(Commands)
  <2>1. s \in Seq(Commands)
    BY <1>1, <1>2, SeqMonotonic DEF Carries
  <2> QED BY <2>1, ConcatProperties
<1>4. entries' \in [Policies -> Entries] /\ pm' \in [Names -> Versions]
  <2>1. pm \in [Names -> Versions]
    BY DEF PolicyInv, PoliciesTypeOK
  <2> QED BY <2>1 DEF Apply, Outcome
<1>5. ASSUME NEW n \in Names PROVE Leads(q, n, pm[n], Held(n))
  <2>1. Held(n) \in Versions /\ pm[n] \in Versions
    BY HeldType DEF PolicyInv
  <2>2. Leads(commands, n, pm[n], Held(n))
    BY DEF PolicyInv, ViewFollows
  <2> QED BY <2>1, <2>2 DEF Keeps
<1>6. ASSUME NEW n \in Policies PROVE pm'[n] = out[n].ver /\ Held(n)' = out[n].entry.ver
  BY DEF Apply, Held, Names
<1>7. ASSUME NEW n \in Names, n \notin Policies PROVE pm'[n] = pm[n] /\ Held(n)' = Held(n)
  BY <1>7 DEF Apply, Held
<1>8. ASSUME NEW n \in Names PROVE Leads(q \o s, n, pm'[n], Held(n)')
  <2>1. CASE n \notin Policies
    <3>1. \A c \in M : ~About(c, n)
      BY <1>1, <2>1 DEF Outcome, About
    <3>2. Leads(q \o s, n, pm[n], Held(n))
      BY <3>1, <1>1, <1>2, <1>5, SentLeads
    <3> QED BY <3>2, <2>1, <1>7
  <2>2. CASE n \in Policies /\ out[n].told = {}
    <3>1. \A c \in M : ~About(c, n)
      BY <1>1, <2>2 DEF Outcome, About
    <3>2. Leads(q \o s, n, pm[n], Held(n))
      BY <3>1, <1>1, <1>2, <1>5, SentLeads
    <3>3. pm'[n] = pm[n] /\ Held(n)' = Held(n)
      BY <2>2, <1>6 DEF Outcome, Held
    <3> QED BY <3>2, <3>3
  <2>3. CASE n \in Policies /\ out[n].told # {}
    <3>1. \E c \in M : About(c, n)
      BY <1>1, <2>3 DEF Outcome
    <3>2. \A c \in M : About(c, n) => c.ver = out[n].entry.ver
      BY <1>1, <2>3 DEF Outcome, About
    <3>3. Leads(q \o s, n, pm'[n], out[n].entry.ver)
      BY <3>1, <3>2, <1>1, <1>2, SentLeads
    <3> QED BY <3>3, <1>6, <2>3
  <2> QED BY <2>1, <2>2, <2>3
<1>9. DealsFollow'
  <2> SUFFICES ASSUME NEW n \in Names, pm'[n] = 0, ~DeletionAhead(q \o s)
               PROVE  \A a \in {making[n], deals[n]} : a = NoAgreement \/ a.late
    BY DEF DealsFollow
  <2>1. ~DeletionAhead(q) /\ \A c \in M : c.kind # "policyDeleted"
    BY <1>1, <1>2, SentDeletion
  <2>2. ~DeletionAhead(commands)
    BY <2>1 DEF Keeps
  <2>3. pm[n] = 0
    BY <2>1, <1>1, <1>6, <1>7 DEF Outcome
  <2> QED BY <2>2, <2>3 DEF PolicyInv, DealsFollow
<1> QED BY <1>3, <1>4, <1>8, <1>9 DEF ViewFollows

LEMMA RemainingDeleted ==
  ASSUME PolicyInv, NEW q \in Seq(Commands), Keeps(commands, q), deleteRemainingPolicies(q),
         watched' = watched, making' = making, deals' = deals
  PROVE  /\ entries' \in [Policies -> Entries] /\ pm' \in [Names -> Versions]
         /\ commands' \in Seq(Commands) /\ ViewFollows' /\ DealsFollow'
<1> DEFINE out == [p \in Policies |-> deleteBusinessPolicy(p)]
<1>1. PICK s \in InAnyOrder(out, Policies) : commands' = q \o Twice(s)
  BY DEF deleteRemainingPolicies
<1>2. Apply(out)
  BY DEF deleteRemainingPolicies
<1>3. \A p \in Policies : Outcome(out[p], p)
  BY DeleteOutcome DEF PolicyInv
<1> HIDE DEF out
<1>4. Carries(s, UNION {out[p].told : p \in Policies})
  BY <1>3, GatheredCarries, PolicyNames DEF Outcome
<1>5. Carries(Twice(s), UNION {out[p].told : p \in Policies})
  BY <1>4, TwiceCarries
<1> QED BY <1>1, <1>2, <1>3, <1>5, Applied

LEMMA PoliciesUpdated ==
  ASSUME PolicyInv, NEW defined \in [Names -> Versions], UpdatePolicies(defined),
         watched' = watched, making' = making, deals' = deals
  PROVE  /\ entries' \in [Policies -> Entries] /\ pm' \in [Names -> Versions]
         /\ commands' \in Seq(Commands) /\ ViewFollows' /\ DealsFollow'
<1>0. commands \in Seq(Commands) /\ Keeps(commands, commands)
  BY KeepsItself DEF PolicyInv, PoliciesTypeOK
<1>1. CASE UNCHANGED <<entries, pm, commands>>
  BY <1>0, <1>1 DEF PolicyInv, PoliciesTypeOK, Entries, ViewFollows, DealsFollow, Held
<1>2. CASE deleteRemainingPolicies(commands)
  BY <1>0, <1>2, RemainingDeleted
<1>3. CASE LET kept == {p \in Policies : serveBusinessPolicy(p) /\ defined[p] # 0}
               out == [p \in Policies |-> IF p \in kept THEN updateBusinessPolicy(p, defined[p])
                                          ELSE deleteBusinessPolicy(p)]
           IN  /\ Apply(out)
               /\ \E s \in InAnyOrder(out, Policies \ kept), t \in InAnyOrder(out, kept) :
                    commands' = commands \o s \o t
  <2> DEFINE kept == {p \in Policies : serveBusinessPolicy(p) /\ defined[p] # 0}
             out == [p \in Policies |-> IF p \in kept THEN updateBusinessPolicy(p, defined[p])
                                        ELSE deleteBusinessPolicy(p)]
             M == UNION {out[p].told : p \in Policies \ kept}
             N == UNION {out[p].told : p \in kept}
  <2>1. PICK s \in InAnyOrder(out, Policies \ kept), t \in InAnyOrder(out, kept) :
               commands' = (commands \o s) \o t
    BY <1>3
  <2>2. Apply(out)
    BY <1>3
  <2>3. \A p \in Policies : Outcome(out[p], p)
    <3> SUFFICES ASSUME NEW p \in Policies PROVE Outcome(out[p], p)
      OBVIOUS
    <3>1. p \in kept => defined[p] \in Versions \ {0}
      BY DEF Names
    <3> QED BY <3>1, UpdateOutcome, DeleteOutcome DEF PolicyInv
  <2>4. IsFiniteSet(kept) /\ IsFiniteSet(Policies \ kept) /\ kept \subseteq Policies
    BY PolicyNames, FS_Subset
  <2> HIDE DEF kept, out
  <2>5. Carries(s, M) /\ Carries(t, N)
    BY <2>3, <2>4, GatheredCarries DEF Outcome
  <2>6. M \cup N = UNION {out[p].told : p \in Policies}
    BY <2>4
  <2>7. Carries(s \o t, UNION {out[p].told : p \in Policies})
    BY <2>5, <2>6, BothCarry
  <2>8. M \subseteq Commands /\ N \subseteq Commands
    BY <2>3, <2>4 DEF Outcome
  <2>9. commands' = commands \o (s \o t)
    <3>1. s \in Seq(Commands) /\ t \in Seq(Commands)
      BY <2>5, <2>8, SeqMonotonic DEF Carries
    <3> QED BY <3>1, <2>1, <1>0, ConcatAssociative
  <2> QED BY <1>0, <2>2, <2>3, <2>7, <2>9, Applied
<1> QED BY <1>1, <1>2, <1>3 DEF UpdatePolicies

-----------------------------------------------------------------------------
(* The steps. *)
\* The parts of the types that most steps leave alone.
ExchangeTypes == exPolicies \in [Names -> Versions] /\ exServed \subseteq Names /\ exSvc \in SvcVersions
ManagerTypes ==
  /\ served \subseteq Names /\ entries \in [Policies -> Entries]
  /\ files \in [Patterns -> Versions] /\ watched \in [Patterns -> Versions] /\ pm \in [Names -> Versions]
QueueTypes == commands \in Seq(Commands) /\ running \in [Goroutines -> GoroutineStates]
Agreed == [ver : Versions, svc : SvcVersions \cup {-1}, late : BOOLEAN]
AgreedTypes == making \in [Names -> Agreed] /\ deals \in [Names -> Agreed]

LEMMA TypesAre ==
  PoliciesTypeOK <=> ExchangeTypes /\ ManagerTypes /\ QueueTypes /\ AgreedTypes
<1>1. {making, deals} \subseteq [Names -> Agreed] <=> AgreedTypes
  BY DEF AgreedTypes
<1> HIDE DEF Agreed
<1> QED BY <1>1 DEF PoliciesTypeOK, ExchangeTypes, ManagerTypes, QueueTypes, Entries, Agreed

LEMMA TypesNextAre ==
  PoliciesTypeOK' <=> ExchangeTypes' /\ ManagerTypes' /\ QueueTypes' /\ AgreedTypes'
<1>1. {making', deals'} \subseteq [Names -> Agreed] <=> AgreedTypes'
  BY DEF AgreedTypes
<1> HIDE DEF Agreed
<1> QED BY <1>1 DEF PoliciesTypeOK, ExchangeTypes, ManagerTypes, QueueTypes, Entries, Agreed

LEMMA PolicyTypes == PolicyInv => ExchangeTypes /\ ManagerTypes /\ QueueTypes /\ AgreedTypes
BY TypesAre DEF PolicyInv

LEMMA IdleState == Idle \in GoroutineStates /\ Idle.kind = "idle" /\ Idle.seen = <<>>
BY DEF Idle, GoroutineStates

LEMMA NoneAgreed == NoAgreement \in Agreed /\ NoAgreement.late = FALSE /\ NoAgreement.ver = 0
BY PolicyBounds DEF NoAgreement, Agreed, Versions

\* A goroutine that starts, reads or ends.
LEMMA GoroutineMoves ==
  ASSUME running \in [Goroutines -> GoroutineStates], NEW g \in Goroutines,
         NEW r \in GoroutineStates, running' = [running EXCEPT ![g] = r]
  PROVE  running' \in [Goroutines -> GoroutineStates]
OBVIOUS

LEMMA StartTypes ==
  ASSUME PolicyInv, NEW kind \in {"policies", "patterns", "servicePolicies"}, Start(kind)
  PROVE  running' \in [Goroutines -> GoroutineStates]
<1>1. [kind |-> kind, seen |-> <<>>] \in GoroutineStates
  BY DEF GoroutineStates
<1>2. running \in [Goroutines -> GoroutineStates]
  BY PolicyTypes DEF QueueTypes
<1> QED BY <1>1, <1>2, GoroutineMoves DEF Start

LEMMA SeenTypes ==
  ASSUME PolicyInv, NEW g \in Goroutines, running[g].seen # <<>>
  PROVE  /\ running[g].kind \in {"policies", "patterns"} => running[g].seen[1] \in [Names -> Versions]
         /\ running[g].kind = "servicePolicies" => running[g].seen[1] \in SvcVersions
<1>1. running[g] \in GoroutineStates
  BY PolicyTypes DEF QueueTypes
<1>2. CASE running[g] \in [kind : {"policies", "patterns"}, seen : {<<d>> : d \in [Names -> Versions]}]
  BY <1>2
<1>3. CASE running[g] \in [kind : {"servicePolicies"}, seen : {<<v>> : v \in SvcVersions}]
  BY <1>3
<1> QED BY <1>1, <1>2, <1>3 DEF GoroutineStates

\* Steps of the exchange.
LEMMA EditView ==
  ASSUME PolicyInv, ExchangeTypes', NEW c \in Commands, OtherKind(c), commands' = Append(commands, c),
         UNCHANGED <<served, entries, files, watched, pm, running, making, deals>>
  PROVE  PolicyInv'
<1>1. Keeps(commands, commands')
  BY KeepsAppend, PolicyTypes DEF QueueTypes
<1>2. ViewFollows' /\ DealsFollow'
  BY <1>1, SameView DEF Held
<1>3. PoliciesTypeOK'
  BY <1>1, TypesNextAre, PolicyTypes DEF Keeps, ManagerTypes, QueueTypes, AgreedTypes
<1>4. MadeForPolicy'
  BY DEF PolicyInv, MadeForPolicy
<1> QED BY <1>2, <1>3, <1>4 DEF PolicyInv

LEMMA EditCommands ==
  ASSUME NEW n \in Names \cup {"svc"},
         NEW kind \in {"policyChange", "patternChange", "servedPolicy", "servedPattern", "servicePolicyChange"}
  PROVE  Cmd(kind, n, 0) \in Commands /\ OtherKind(Cmd(kind, n, 0))
BY DEF Cmd, Commands, OtherKind

LEMMA EditPolicyView ==
  ASSUME PolicyInv, NEW n \in Names, NEW v \in Versions, EditPolicy(n, v)
  PROVE  PolicyInv'
<1> DEFINE kind == IF n \in Policies THEN "policyChange" ELSE "patternChange"
           c == Cmd(kind, n, 0)
<1>1. c \in Commands /\ OtherKind(c)
  BY EditCommands
<1>2. commands' = Append(commands, c)
  BY DEF EditPolicy
<1>3. ExchangeTypes'
  BY PolicyTypes DEF ExchangeTypes, EditPolicy
<1> HIDE DEF c
<1> QED BY <1>1, <1>2, <1>3, EditView DEF EditPolicy

LEMMA EditServedView ==
  ASSUME PolicyInv, NEW n \in Names, EditServedPolicies(n)
  PROVE  PolicyInv'
<1> DEFINE kind == IF n \in Policies THEN "servedPolicy" ELSE "servedPattern"
           c == Cmd(kind, n, 0)
<1>1. c \in Commands /\ OtherKind(c)
  BY EditCommands
<1>2. commands' = Append(commands, c)
  BY DEF EditServedPolicies
<1>3. ExchangeTypes'
  BY PolicyTypes DEF ExchangeTypes, EditServedPolicies
<1> HIDE DEF c
<1> QED BY <1>1, <1>2, <1>3, EditView DEF EditServedPolicies

LEMMA EditServicePolicyView ==
  ASSUME PolicyInv, NEW v \in SvcVersions, EditServicePolicy(v)
  PROVE  PolicyInv'
<1> DEFINE c == Cmd("servicePolicyChange", "svc", 0)
<1>1. c \in Commands /\ OtherKind(c)
  BY EditCommands
<1>2. commands' = Append(commands, c)
  BY DEF EditServicePolicy
<1>3. ExchangeTypes'
  BY PolicyTypes DEF ExchangeTypes, EditServicePolicy
<1> HIDE DEF c
<1> QED BY <1>1, <1>2, <1>3, EditView DEF EditServicePolicy

\* Steps of goroutines that send nothing.
LEMMA QuietView ==
  ASSUME PolicyInv, Keeps(commands, commands'), running' \in [Goroutines -> GoroutineStates],
         served' \subseteq Names, files' \in [Patterns -> Versions],
         UNCHANGED <<exPolicies, exServed, exSvc, entries, watched, pm, making, deals>>
  PROVE  PolicyInv'
<1>1. ViewFollows' /\ DealsFollow'
  BY SameView DEF Held
<1>2. PoliciesTypeOK'
  BY TypesNextAre, PolicyTypes DEF Keeps, ExchangeTypes, ManagerTypes, QueueTypes, AgreedTypes
<1>3. MadeForPolicy'
  BY DEF PolicyInv, MadeForPolicy
<1> QED BY <1>1, <1>2, <1>3 DEF PolicyInv

LEMMA FetchView ==
  ASSUME PolicyInv, NEW g \in Goroutines, Fetch(g) \/ FetchFails(g)
  PROVE  PolicyInv'
<1>1. /\ running \in [Goroutines -> GoroutineStates] /\ running[g] \in GoroutineStates
      /\ exPolicies \in [Names -> Versions] /\ exSvc \in SvcVersions
      /\ commands \in Seq(Commands) /\ commands' = commands
      /\ [n \in Names |-> 0] \in [Names -> Versions]
  BY PolicyTypes, PolicyBounds DEF QueueTypes, ExchangeTypes, Fetch, FetchFails, Versions
<1>2. running[g] # Idle /\ running[g].seen = <<>>
  BY DEF Fetch, FetchFails
<1>3. running[g].kind \in {"policies", "patterns", "servicePolicies"}
  <2>1. running[g] \in [kind : {"idle", "policies", "patterns", "servicePolicies"}, seen : {<<>>}]
    BY <1>1, <1>2 DEF GoroutineStates
  <2> QED BY <2>1, <1>2 DEF Idle
<1>4. \E r \in GoroutineStates : running' = [running EXCEPT ![g] = r]
  <2>1. CASE running' = [running EXCEPT ![g] = Idle]
    BY <2>1, IdleState
  <2>2. ASSUME NEW d \in [Names -> Versions], running[g].kind # "servicePolicies",
               running' = [running EXCEPT ![g].seen = <<d>>]
        PROVE  \E r \in GoroutineStates : running' = [running EXCEPT ![g] = r]
    <3> DEFINE r == [running[g] EXCEPT !.seen = <<d>>]
    <3>1. r = [kind |-> running[g].kind, seen |-> <<d>>]
      BY <1>1 DEF GoroutineStates
    <3>2. r \in GoroutineStates
      BY <3>1, <1>3, <2>2 DEF GoroutineStates
    <3>3. running' = [running EXCEPT ![g] = r]
      BY <2>2
    <3> HIDE DEF r
    <3> QED BY <3>2, <3>3
  <2>3. ASSUME running[g].kind = "servicePolicies", running' = [running EXCEPT ![g].seen = <<exSvc>>]
        PROVE  \E r \in GoroutineStates : running' = [running EXCEPT ![g] = r]
    <3> DEFINE r == [running[g] EXCEPT !.seen = <<exSvc>>]
    <3>1. r = [kind |-> running[g].kind, seen |-> <<exSvc>>]
      BY <1>1 DEF GoroutineStates
    <3>2. r \in GoroutineStates
      BY <3>1, <1>1, <2>3 DEF GoroutineStates
    <3>3. running' = [running EXCEPT ![g] = r]
      BY <2>3
    <3> HIDE DEF r
    <3> QED BY <3>2, <3>3
  <2>4. CASE Fetch(g)
    BY <2>4, <2>2, <2>3, <1>1 DEF Fetch
  <2>5. CASE FetchFails(g)
    BY <2>5, <2>1, <2>2, <1>1 DEF FetchFails
  <2> QED BY <2>4, <2>5
<1>5. running' \in [Goroutines -> GoroutineStates]
  BY <1>1, <1>4, GoroutineMoves
<1>6. Keeps(commands, commands')
  BY <1>1, KeepsItself
<1>7. /\ served' = served /\ files' = files
      /\ UNCHANGED <<exPolicies, exServed, exSvc, entries, watched, pm, making, deals>>
  BY DEF Fetch, FetchFails, exchangeSide
<1> QED BY <1>5, <1>6, <1>7, QuietView, PolicyTypes DEF ManagerTypes

LEMMA EndsTypes ==
  ASSUME PolicyInv, NEW g \in Goroutines, running' = [running EXCEPT ![g] = Idle]
  PROVE  running' \in [Goroutines -> GoroutineStates]
BY GoroutineMoves, IdleState, PolicyTypes DEF QueueTypes

LEMMA GeneratePatternsView ==
  ASSUME PolicyInv, NEW g \in Goroutines, generatePolicyFromPatterns(g)
  PROVE  PolicyInv'
<1>1. running' \in [Goroutines -> GoroutineStates]
  BY EndsTypes DEF generatePolicyFromPatterns
<1>2. running[g].seen[1] \in [Names -> Versions]
  BY SeenTypes DEF generatePolicyFromPatterns
<1>3. files' \in [Patterns -> Versions]
  BY <1>2, PolicyBounds DEF generatePolicyFromPatterns, UpdatePatternPolicies, Names, Versions
<1>4. Keeps(commands, commands')
  BY KeepsItself, PolicyTypes DEF generatePolicyFromPatterns, QueueTypes
<1>5. served' = served /\ UNCHANGED <<exPolicies, exServed, exSvc, entries, watched, pm, making, deals>>
  BY DEF generatePolicyFromPatterns, exchangeSide
<1> QED BY <1>1, <1>3, <1>4, <1>5, QuietView, PolicyTypes DEF ManagerTypes

\* A step of the business policy manager.
LEMMA ManagerView ==
  ASSUME PolicyInv,
         /\ entries' \in [Policies -> Entries] /\ pm' \in [Names -> Versions]
         /\ commands' \in Seq(Commands) /\ ViewFollows' /\ DealsFollow',
         running' \in [Goroutines -> GoroutineStates], served' \subseteq Names,
         UNCHANGED <<exPolicies, exServed, exSvc, files, watched, making, deals>>
  PROVE  PolicyInv'
<1>1. PoliciesTypeOK'
  BY TypesNextAre, PolicyTypes DEF ExchangeTypes, ManagerTypes, QueueTypes, AgreedTypes
<1>2. MadeForPolicy'
  BY DEF PolicyInv, MadeForPolicy
<1> QED BY <1>1, <1>2 DEF PolicyInv

LEMMA GeneratePoliciesView ==
  ASSUME PolicyInv, NEW g \in Goroutines, generatePolicyFromBusinessPols(g)
  PROVE  PolicyInv'
<1>1. running' \in [Goroutines -> GoroutineStates]
  BY EndsTypes DEF generatePolicyFromBusinessPols
<1>2. running[g].seen[1] \in [Names -> Versions]
  BY SeenTypes DEF generatePolicyFromBusinessPols
<1>3. served' = served /\ UNCHANGED <<exPolicies, exServed, exSvc, files, watched, making, deals>>
  BY DEF generatePolicyFromBusinessPols, exchangeSide
<1>4. UpdatePolicies(running[g].seen[1])
  BY DEF generatePolicyFromBusinessPols
<1>5. /\ entries' \in [Policies -> Entries] /\ pm' \in [Names -> Versions]
      /\ commands' \in Seq(Commands) /\ ViewFollows' /\ DealsFollow'
  BY <1>2, <1>3, <1>4, PoliciesUpdated
<1> QED BY <1>1, <1>3, <1>5, ManagerView, PolicyTypes DEF ManagerTypes

\* Changes of the service policies in the entries.
SvcChange(c) == c \in Commands /\ OtherKind(c)

LEMMA ServicePolicyAdded ==
  ASSUME PolicyInv, NEW p \in Policies, NEW v \in SvcVersions, NEW q, Keeps(commands, q),
         AddServicePolicy(p, v, q)
  PROVE  /\ entries' \in [Policies -> Entries] /\ Keeps(commands, commands')
         /\ \A r \in Policies : entries'[r].ver = entries[r].ver
<1>0. entries \in [Policies -> Entries] /\ q \in Seq(Commands)
  BY PolicyTypes DEF ManagerTypes, Keeps
<1>1. CASE UNCHANGED entries /\ commands' = q
  BY <1>0, <1>1
<1>2. CASE ~(UNCHANGED entries /\ commands' = q)
  <2> DEFINE told == {r \in Policies : entries[r].svc \notin {-1, v}}
             event(r) == Cmd("svcPolicyChanged", r, v)
             M == {event(r) : r \in told \ {p}}
             first == IF p \in told THEN <<event(p)>> ELSE <<>>
             N == IF p \in told THEN {event(p)} ELSE {}
  <2>1. /\ entries' = [r \in Policies |-> IF r = p \/ entries[r].svc # -1
                                          THEN [entries[r] EXCEPT !.svc = v] ELSE entries[r]]
        /\ \E s \in SetToSeqs(M) : commands' = (q \o first) \o s
    BY <1>2 DEF AddServicePolicy
  <2>2. entries' \in [Policies -> Entries] /\ \A r \in Policies : entries'[r].ver = entries[r].ver
    BY <1>0, <2>1 DEF Entries
  <2>3. \A r \in Policies : SvcChange(event(r))
    BY DEF SvcChange, Cmd, Commands, OtherKind
  <2>4. IsFiniteSet(M)
    <3> DEFINE f == [r \in told \ {p} |-> event(r)]
    <3>1. f \in Surjection(told \ {p}, M)
      BY DEF Surjection
    <3>2. IsFiniteSet(told \ {p})
      BY PolicyNames, FS_Subset
    <3> QED BY <3>1, <3>2, FS_Surjection
  <2>5. PICK s \in SetToSeqs(M) : commands' = (q \o first) \o s
    BY <2>1
  <2>6. /\ M \subseteq Commands /\ \A c \in M : OtherKind(c)
        /\ N \subseteq Commands /\ \A c \in N : OtherKind(c)
    BY <2>3 DEF SvcChange
  <2> HIDE DEF M, told, event
  <2>7. Carries(first, N)
    BY OneCarried, NoneCarried
  <2>8. Carries(s, M)
    BY <2>4, ArrangedCarries
  <2> HIDE DEF first, N
  <2>9. Keeps(q, q \o first)
    BY <1>0, <2>6, <2>7, KeepsSent
  <2>10. q \o first \in Seq(Commands)
    BY <2>9 DEF Keeps
  <2>11. Keeps(q \o first, (q \o first) \o s)
    BY <2>10, <2>6, <2>8, KeepsSent
  <2>12. Keeps(commands, commands')
    BY <2>5, <2>9, <2>11, KeepsOn
  <2> QED BY <2>2, <2>12
<1> QED BY <1>1, <1>2

LEMMA ServicePolicyRemoved ==
  ASSUME PolicyInv, NEW p \in Policies, RemoveServicePolicy(p)
  PROVE  /\ entries' \in [Policies -> Entries] /\ Keeps(commands, commands')
         /\ \A r \in Policies : entries'[r].ver = entries[r].ver
<1>0. entries \in [Policies -> Entries] /\ commands \in Seq(Commands)
  BY PolicyTypes DEF ManagerTypes, QueueTypes
<1> DEFINE told == {q \in Policies : entries[q] # NoEntry /\ entries[q].svc > 0}
           c == Cmd("svcPolicyDeleted", p, 0)
           k == Cardinality(told)
           s == [i \in 1..k |-> c]
<1>1. /\ entries' = [q \in Policies |-> IF q \in told THEN [entries[q] EXCEPT !.svc = -1] ELSE entries[q]]
      /\ commands' = commands \o s
  BY DEF RemoveServicePolicy
<1>2. entries' \in [Policies -> Entries] /\ \A r \in Policies : entries'[r].ver = entries[r].ver
  BY <1>0, <1>1 DEF Entries
<1>3. c \in Commands /\ OtherKind(c)
  BY PolicyBounds DEF Cmd, Commands, OtherKind, SvcVersions
<1>4. k \in Nat
  <2>1. IsFiniteSet(told)
    BY PolicyNames, FS_Subset
  <2> QED BY <2>1, FS_CardinalityType
<1> HIDE DEF c, k
<1>5. CASE k = 0
  <2>1. s = <<>>
    BY <1>5
  <2> QED BY <2>1, <1>0, <1>1, <1>2, ConcatEmptySeq, KeepsItself
<1>6. CASE k # 0
  <2>1. s \in Seq({c}) /\ DOMAIN s = 1..k /\ 1 \in 1..k /\ s[1] = c
    BY <1>4, <1>6
  <2>2. Carries(s, {c})
    BY <2>1 DEF Carries
  <2> HIDE DEF s
  <2>3. Keeps(commands, commands \o s)
    BY <1>0, <1>3, <2>2, KeepsSent
  <2> QED BY <2>3, <1>1, <1>2
<1> QED BY <1>5, <1>6

LEMMA ServiceView ==
  ASSUME PolicyInv, entries' \in [Policies -> Entries], Keeps(commands, commands'),
         \A r \in Policies : entries'[r].ver = entries[r].ver,
         running' \in [Goroutines -> GoroutineStates],
         UNCHANGED <<exPolicies, exServed, exSvc, served, files, watched, pm, making, deals>>
  PROVE  PolicyInv'
<1>1. \A n \in Names : Held(n)' = Held(n)
  BY DEF Held
<1>2. ViewFollows' /\ DealsFollow'
  BY <1>1, SameView
<1>3. pm' \in [Names -> Versions] /\ commands' \in Seq(Commands) /\ served' \subseteq Names
  BY PolicyTypes DEF ManagerTypes, Keeps
<1> QED BY <1>2, <1>3, ManagerView

LEMMA UpdateServiceView ==
  ASSUME PolicyInv, NEW g \in Goroutines, updateServicePolicies(g)
  PROVE  PolicyInv'
<1> DEFINE v == running[g].seen[1]
<1>1. v \in SvcVersions
  BY SeenTypes DEF updateServicePolicies
<1>2. running' \in [Goroutines -> GoroutineStates]
  BY EndsTypes DEF updateServicePolicies
<1>3. UNCHANGED <<exPolicies, exServed, exSvc, served, files, watched, pm, making, deals>>
  BY DEF updateServicePolicies, exchangeSide
<1>4. commands \in Seq(Commands) /\ Keeps(commands, commands) /\ entries \in [Policies -> Entries]
  BY KeepsItself, PolicyTypes DEF QueueTypes, ManagerTypes
<1>5. /\ entries' \in [Policies -> Entries] /\ Keeps(commands, commands')
      /\ \A r \in Policies : entries'[r].ver = entries[r].ver
  <2>1. CASE UNCHANGED <<entries, commands>>
    BY <2>1, <1>4
  <2>2. ASSUME NEW p \in Policies, RemoveServicePolicy(p) PROVE <1>5!:
    BY <2>2, ServicePolicyRemoved
  <2>3. ASSUME NEW p \in Policies, AddServicePolicy(p, v, commands) PROVE <1>5!:
    BY <2>3, <1>1, <1>4, ServicePolicyAdded
  <2> HIDE DEF v
  <2>4. \/ UNCHANGED <<entries, commands>>
        \/ \E p \in Policies : RemoveServicePolicy(p) \/ AddServicePolicy(p, v, commands)
    BY DEF updateServicePolicies, v
  <2> QED BY <2>1, <2>2, <2>3, <2>4
<1> QED BY <1>2, <1>3, <1>5, ServiceView

\* The watcher of the policy files.
LEMMA WatcherView ==
  ASSUME PolicyInv, PolicyFileChangeWatcher
  PROVE  PolicyInv'
<1> DEFINE newer(p) == Cmd("policyChanged", p, files[p])
           deleted(p) == Cmd("policyDeleted", p, 0)
           M == {newer(p) : p \in NewFiles}
           N == {newer(p) : p \in ChangedFiles} \cup {deleted(p) : p \in DeletedFiles}
<1>1. /\ files \in [Patterns -> Versions] /\ watched \in [Patterns -> Versions]
      /\ commands \in Seq(Commands) /\ watched' = files
      /\ UNCHANGED <<exPolicies, exServed, exSvc, served, entries, files, pm, running, making, deals>>
  BY PolicyTypes DEF ManagerTypes, QueueTypes, PolicyFileChangeWatcher, exchangeSide
<1>2. PICK s \in SetToSeqs(M), t \in SetToSeqs(N) : commands' = (commands \o s) \o t
  BY DEF PolicyFileChangeWatcher
<1>3. M \subseteq Commands /\ N \subseteq Commands
  BY <1>1 DEF NewFiles, ChangedFiles, DeletedFiles, Cmd, Commands, Names
<1>4. IsFiniteSet(M) /\ IsFiniteSet(N)
  <2>1. IsFiniteSet(NewFiles) /\ IsFiniteSet(ChangedFiles) /\ IsFiniteSet(DeletedFiles)
    BY PolicyNames, FS_Subset DEF NewFiles, ChangedFiles, DeletedFiles
  <2>2. ASSUME NEW S, IsFiniteSet(S) PROVE IsFiniteSet({newer(p) : p \in S})
    <3>1. [p \in S |-> newer(p)] \in Surjection(S, {newer(p) : p \in S})
      BY DEF Surjection
    <3> QED BY <3>1, <2>2, FS_Surjection
  <2>3. IsFiniteSet({deleted(p) : p \in DeletedFiles})
    <3>1. [p \in DeletedFiles |-> deleted(p)] \in Surjection(DeletedFiles, {deleted(p) : p \in DeletedFiles})
      BY DEF Surjection
    <3> QED BY <3>1, <2>1, FS_Surjection
  <2> QED BY <2>1, <2>2, <2>3, FS_Union
<1>5. \A n \in Names : \A c \in M \cup N : About(c, n) =>
        n \in Patterns /\ files[n] # watched[n] /\ c.ver = files[n]
  BY <1>1 DEF NewFiles, ChangedFiles, DeletedFiles, Cmd, About
<1>6. ASSUME NEW n \in Patterns, files[n] # watched[n] PROVE \E c \in M \cup N : About(c, n)
  <2>1. n \in NewFiles \cup ChangedFiles \cup DeletedFiles
    BY <1>1, <1>6 DEF NewFiles, ChangedFiles, DeletedFiles
  <2>2. About(newer(n), n) /\ About(deleted(n), n)
    BY DEF About, Cmd
  <2> QED BY <2>1, <2>2
<1> HIDE DEF M, N
<1>7. Carries(s, M) /\ Carries(t, N)
  BY <1>4, ArrangedCarries
<1>8. Carries(s \o t, M \cup N)
  BY <1>7, BothCarry
<1>9. commands' = commands \o (s \o t) /\ commands' \in Seq(Commands)
  <2>1. s \in Seq(Commands) /\ t \in Seq(Commands)
    BY <1>7, <1>3, SeqMonotonic DEF Carries
  <2>2. commands \in Seq(Commands)
    BY <1>1
  <2>3. (commands \o s) \o t = commands \o (s \o t)
    BY <2>1, <2>2, ConcatAssociative
  <2>4. commands \o s \in Seq(Commands)
    BY <2>1, <2>2, ConcatProperties
  <2>5. (commands \o s) \o t \in Seq(Commands)
    BY <2>1, <2>4, ConcatProperties
  <2> QED BY <1>2, <2>3, <2>5
<1>10. ASSUME NEW n \in Names PROVE Leads(commands', n, pm[n], Held(n)')
  <2>1. Leads(commands, n, pm[n], Held(n))
    BY DEF PolicyInv, ViewFollows
  <2>2. CASE \A c \in M \cup N : ~About(c, n)
    <3>1. Held(n)' = Held(n)
      BY <2>2, <1>1, <1>6 DEF Held, Names
    <3>2. Leads(commands \o (s \o t), n, pm[n], Held(n))
      BY <2>1, <2>2, <1>1, <1>3, <1>8, SentLeads
    <3> QED BY <3>1, <3>2, <1>9
  <2>3. CASE \E c \in M \cup N : About(c, n)
    <3>1. n \in Patterns /\ n \notin Policies
      BY <2>3, <1>5, PolicyNames
    <3>2. Held(n)' = files[n]
      BY <3>1, <1>1 DEF Held
    <3>3. \A c \in M \cup N : About(c, n) => c.ver = files[n]
      BY <1>5
    <3>4. Leads(commands \o (s \o t), n, pm[n], files[n])
      BY <2>3, <3>3, <1>1, <1>3, <1>8, SentLeads
    <3> QED BY <3>2, <3>4, <1>9
  <2> QED BY <2>2, <2>3
<1>11. ViewFollows'
  BY <1>1, <1>10 DEF ViewFollows
<1>12. DealsFollow'
  <2>1. DeletionAhead(commands) => DeletionAhead(commands')
    BY <1>1, <1>3, <1>8, <1>9, SentDeletion
  <2> QED BY <2>1, <1>1 DEF PolicyInv, DealsFollow
<1>13. PoliciesTypeOK'
  BY <1>1, <1>9, TypesNextAre, PolicyTypes DEF ExchangeTypes, ManagerTypes, QueueTypes, AgreedTypes
<1> QED BY <1>1, <1>11, <1>12, <1>13 DEF PolicyInv, MadeForPolicy

\* The commands.
LEMMA TakenKeeps ==
  ASSUME PolicyInv, NEW kind, kind \notin {"policyChanged", "policyDeleted"}, Is(kind)
  PROVE  Keeps(commands, Tail(commands)) /\ Tail(commands) \in Seq(Commands)
<1>1. commands \in Seq(Commands) /\ commands # <<>> /\ OtherKind(Head(commands))
  BY PolicyTypes DEF QueueTypes, Is, Next1, OtherKind
<1>2. Keeps(commands, Tail(commands))
  BY <1>1, KeepsTail
<1> QED BY <1>2 DEF Keeps

LEMMA ChangeCommandView ==
  ASSUME PolicyInv, ChangeCommand
  PROVE  PolicyInv'
<1>1. running' \in [Goroutines -> GoroutineStates]
  BY StartTypes DEF ChangeCommand
<1>2. Keeps(commands, commands')
  BY TakenKeeps DEF ChangeCommand, Taken
<1>3. served' = served /\ files' = files /\ UNCHANGED <<exPolicies, exServed, exSvc, entries, watched, pm, making, deals>>
  BY DEF ChangeCommand, exchangeSide
<1> QED BY <1>1, <1>2, <1>3, QuietView, PolicyTypes DEF ManagerTypes

LEMMA ServedPolicyView ==
  ASSUME PolicyInv, ServedPolicyCommand
  PROVE  PolicyInv'
<1>1. running' \in [Goroutines -> GoroutineStates]
  BY StartTypes DEF ServedPolicyCommand
<1>2. Keeps(commands, Tail(commands)) /\ Tail(commands) \in Seq(Commands)
  BY TakenKeeps DEF ServedPolicyCommand
<1>3. served' \subseteq Names /\ UNCHANGED <<exPolicies, exServed, exSvc, files, watched, making, deals>>
  BY PolicyTypes DEF ServedPolicyCommand, ExchangeTypes, ManagerTypes
<1>4. CASE deleteRemainingPolicies(Tail(commands))
  <2>1. /\ entries' \in [Policies -> Entries] /\ pm' \in [Names -> Versions]
        /\ commands' \in Seq(Commands) /\ ViewFollows' /\ DealsFollow'
    BY <1>2, <1>3, <1>4, RemainingDeleted
  <2> QED BY <2>1, <1>1, <1>3, ManagerView
<1>5. CASE Taken /\ UNCHANGED <<entries, pm>>
  BY <1>1, <1>2, <1>3, <1>5, QuietView, PolicyTypes DEF Taken, ManagerTypes
<1> QED BY <1>4, <1>5 DEF ServedPolicyCommand

LEMMA ServedPatternView ==
  ASSUME PolicyInv, ServedPatternCommand
  PROVE  PolicyInv'
<1>1. running' \in [Goroutines -> GoroutineStates]
  BY StartTypes DEF ServedPatternCommand
<1>2. Keeps(commands, commands')
  BY TakenKeeps DEF ServedPatternCommand, Taken
<1>3. /\ served' \subseteq Names /\ files' \in [Patterns -> Versions]
      /\ UNCHANGED <<exPolicies, exServed, exSvc, entries, watched, pm, making, deals>>
  BY PolicyTypes, PolicyBounds DEF ServedPatternCommand, DeletePolicyFilesForOrg, ExchangeTypes, ManagerTypes, Versions
<1> QED BY <1>1, <1>2, <1>3, QuietView

LEMMA CacheServicePolicyView ==
  ASSUME PolicyInv, CacheServicePolicyCommand
  PROVE  PolicyInv'
<1>1. Keeps(commands, Tail(commands))
  BY TakenKeeps DEF CacheServicePolicyCommand
<1>2. Next1 \in Commands
  BY PolicyTypes, HeadTailProperties DEF CacheServicePolicyCommand, Is, Next1, QueueTypes
<1>3. Next1.name \in Policies /\ Next1.ver \in SvcVersions
  BY <1>2, CommandFacts DEF CacheServicePolicyCommand, Is
<1>4. AddServicePolicy(Next1.name, Next1.ver, Tail(commands))
  BY DEF CacheServicePolicyCommand
<1>5. /\ entries' \in [Policies -> Entries] /\ Keeps(commands, commands')
      /\ \A r \in Policies : entries'[r].ver = entries[r].ver
  BY <1>1, <1>3, <1>4, ServicePolicyAdded
<1>6. UNCHANGED <<exPolicies, exServed, exSvc, served, files, watched, pm, running, making, deals>>
  BY DEF CacheServicePolicyCommand, exchangeSide
<1> QED BY <1>5, <1>6, ServiceView, PolicyTypes DEF QueueTypes

\* A command that changes the agreement of one name.
LEMMA Reevaluated ==
  ASSUME PolicyInv, NEW n \in Names, ReevaluateAgreement(n)
  PROVE  /\ deals' \in [Names -> Agreed]
         /\ \A m \in Names : \/ deals'[m] = deals[m] \/ deals'[m] = NoAgreement
                             \/ m = n /\ deals'[m].late = deals[m].late
<1>1. /\ deals \in [Names -> Agreed] /\ exPolicies[n] \in Versions /\ exSvc \in SvcVersions
      /\ deals[n] \in Agreed
  BY PolicyTypes DEF AgreedTypes, ExchangeTypes
<1> DEFINE new == [deals[n] EXCEPT !.ver = exPolicies[n], !.svc = exSvc]
<1>2. new \in Agreed /\ new.late = deals[n].late
  BY <1>1 DEF Agreed
<1>3. PICK deal \in {NoAgreement, deals[n], new} : deals' = [deals EXCEPT ![n] = deal]
  BY DEF ReevaluateAgreement
<1> HIDE DEF new
<1>4. deal \in Agreed /\ (deal = NoAgreement \/ deal = deals[n] \/ deal.late = deals[n].late)
  BY <1>1, <1>2, <1>3, NoneAgreed
<1> QED BY <1>1, <1>3, <1>4

\* What a command that is not about the policies may do to the agreements.
LEMMA DealView ==
  ASSUME PolicyInv, Keeps(commands, commands'), deals' \in [Names -> Agreed],
         \A m \in Names : \/ deals'[m] = deals[m] \/ deals'[m] = NoAgreement
                          \/ deals[m] # NoAgreement /\ deals'[m].late = deals[m].late,
         UNCHANGED <<exPolicies, exServed, exSvc, served, entries, files, watched, pm, running, making>>
  PROVE  PolicyInv'
<1>1. ViewFollows'
  <2> SUFFICES ASSUME NEW n \in Names PROVE Leads(commands', n, pm[n], Held(n))
    BY DEF ViewFollows, Held
  <2>1. Held(n) \in Versions /\ pm[n] \in Versions
    BY HeldType DEF PolicyInv
  <2>2. Leads(commands, n, pm[n], Held(n))
    BY DEF PolicyInv, ViewFollows
  <2> QED BY <2>1, <2>2 DEF Keeps
<1>2. DealsFollow'
  <2> SUFFICES ASSUME NEW n \in Names, pm[n] = 0, ~DeletionAhead(commands')
               PROVE  \A a \in {making[n], deals'[n]} : a = NoAgreement \/ a.late
    BY DEF DealsFollow
  <2>1. ~DeletionAhead(commands)
    BY DEF Keeps
  <2>2. \A a \in {making[n], deals[n]} : a = NoAgreement \/ a.late
    BY <2>1 DEF PolicyInv, DealsFollow
  <2> QED BY <2>2
<1>3. PoliciesTypeOK'
  BY TypesNextAre, PolicyTypes DEF Keeps, ExchangeTypes, ManagerTypes, QueueTypes, AgreedTypes
<1>4. MadeForPolicy'
  BY DEF PolicyInv, MadeForPolicy
<1> QED BY <1>1, <1>2, <1>3, <1>4 DEF PolicyInv

LEMMA ServiceCommandName ==
  ASSUME PolicyInv, NEW kind \in {"svcPolicyChanged", "svcPolicyDeleted"}, Is(kind)
  PROVE  Next1.name \in Names
<1>1. Next1 \in Commands
  BY PolicyTypes, HeadTailProperties DEF Is, Next1, QueueTypes
<1> QED BY <1>1, CommandFacts DEF Is, Names

LEMMA ServicePolicyChangedView ==
  ASSUME PolicyInv, ServicePolicyChangedCommand
  PROVE  PolicyInv'
<1>1. Keeps(commands, commands')
  BY TakenKeeps DEF ServicePolicyChangedCommand, Taken
<1>2. Next1.name \in Names
  BY ServiceCommandName DEF ServicePolicyChangedCommand
<1>3. UNCHANGED <<exPolicies, exServed, exSvc, served, entries, files, watched, pm, running, making>>
  BY DEF ServicePolicyChangedCommand, exchangeSide
<1>4. deals \in [Names -> Agreed]
  BY PolicyTypes DEF AgreedTypes
<1>5. CASE UNCHANGED deals
  BY <1>1, <1>3, <1>4, <1>5, DealView
<1>6. CASE deals[Next1.name] # NoAgreement /\ ReevaluateAgreement(Next1.name)
  <2> DEFINE n == Next1.name
  <2>1. n \in Names /\ deals[n] # NoAgreement /\ ReevaluateAgreement(n)
    BY <1>2, <1>6
  <2> HIDE DEF n
  <2>2. /\ deals' \in [Names -> Agreed]
        /\ \A m \in Names : \/ deals'[m] = deals[m] \/ deals'[m] = NoAgreement
                            \/ m = n /\ deals'[m].late = deals[m].late
    BY <2>1, Reevaluated
  <2> QED BY <2>1, <2>2, <1>1, <1>3, DealView
<1> QED BY <1>5, <1>6 DEF ServicePolicyChangedCommand

LEMMA ServicePolicyDeletedView ==
  ASSUME PolicyInv, ServicePolicyDeletedCommand
  PROVE  PolicyInv'
<1>1. Keeps(commands, commands')
  BY TakenKeeps DEF ServicePolicyDeletedCommand, Taken
<1>2. UNCHANGED <<exPolicies, exServed, exSvc, served, entries, files, watched, pm, running, making>>
  BY DEF ServicePolicyDeletedCommand, exchangeSide
<1>3. deals \in [Names -> Agreed] /\ deals' = [deals EXCEPT ![Next1.name] = NoAgreement]
  BY PolicyTypes DEF AgreedTypes, ServicePolicyDeletedCommand
<1>4. /\ deals' \in [Names -> Agreed]
      /\ \A m \in Names : deals'[m] = deals[m] \/ deals'[m] = NoAgreement
  BY <1>3, NoneAgreed
<1> QED BY <1>1, <1>2, <1>4, DealView

\* The commands about the policies.
LEMMA ViewCommand ==
  ASSUME PolicyInv, NEW kind \in {"policyChanged", "policyDeleted"}, Is(kind), Taken,
         pm' = [pm EXCEPT ![Next1.name] = Next1.ver], UNCHANGED <<entries, watched>>
  PROVE  /\ Next1.name \in Names /\ Next1.ver \in Versions /\ Next1.kind = kind
         /\ kind = "policyChanged" <=> Next1.ver # 0
         /\ pm \in [Names -> Versions] /\ pm' \in [Names -> Versions]
         /\ commands' \in Seq(Commands) /\ ViewFollows'
<1>1. commands \in Seq(Commands) /\ commands # <<>> /\ commands' = Tail(commands) /\ pm \in [Names -> Versions]
  BY PolicyTypes DEF QueueTypes, ManagerTypes, Is, Taken
<1>2. Next1 \in Commands /\ commands' \in Seq(Commands) /\ Next1 = Head(commands) /\ Next1.kind = kind
  BY <1>1, HeadTailProperties DEF Next1, Is
<1>3. Next1.name \in Names /\ Next1.ver \in Versions /\ (kind = "policyChanged" <=> Next1.ver # 0)
  BY <1>2, CommandFacts
<1>4. pm' \in [Names -> Versions]
  BY <1>1, <1>3
<1>5. ASSUME NEW n \in Names PROVE Leads(commands', n, pm'[n], Held(n))
  <2>1. Leads(commands, n, pm[n], Held(n))
    BY DEF PolicyInv, ViewFollows
  <2>2. Leads(Tail(commands), n, IF About(Head(commands), n) THEN Head(commands).ver ELSE pm[n], Held(n))
    BY <2>1, <1>1, LeadsTail
  <2>3. pm'[n] = IF About(Head(commands), n) THEN Head(commands).ver ELSE pm[n]
    BY <1>1, <1>2, <1>3 DEF About
  <2> QED BY <2>2, <2>3, <1>1
<1>6. ViewFollows'
  BY <1>5 DEF ViewFollows, Held
<1> QED BY <1>1, <1>2, <1>3, <1>4, <1>6

LEMMA PolicyChangedView ==
  ASSUME PolicyInv, PolicyChangedCommand
  PROVE  PolicyInv'
<1> DEFINE n == Next1.name
<1>1. /\ Is("policyChanged") /\ Taken /\ pm' = [pm EXCEPT ![Next1.name] = Next1.ver]
      /\ UNCHANGED <<exPolicies, exServed, exSvc, served, entries, files, watched, running, making>>
  BY DEF PolicyChangedCommand, exchangeSide
<1>2. /\ n \in Names /\ Next1.ver \in Versions /\ Next1.kind = "policyChanged" /\ Next1.ver # 0
      /\ pm \in [Names -> Versions] /\ pm' \in [Names -> Versions]
      /\ commands' \in Seq(Commands) /\ ViewFollows'
  BY <1>1, ViewCommand
<1>3. deals \in [Names -> Agreed] /\ making \in [Names -> Agreed]
  BY PolicyTypes DEF AgreedTypes
<1>4. \/ UNCHANGED deals \/ deals' = [deals EXCEPT ![n] = NoAgreement] \/ ReevaluateAgreement(n)
  BY DEF PolicyChangedCommand
<1> HIDE DEF n
<1>5. deals' \in [Names -> Agreed] /\ \A m \in Names : m # n => deals'[m] = deals[m] \/ deals'[m] = NoAgreement
  <2>1. CASE UNCHANGED deals
    BY <2>1, <1>3
  <2>2. CASE deals' = [deals EXCEPT ![n] = NoAgreement]
    BY <2>2, <1>3, NoneAgreed
  <2>3. CASE ReevaluateAgreement(n)
    BY <2>3, <1>2, Reevaluated
  <2> QED BY <1>4, <2>1, <2>2, <2>3
<1>6. DealsFollow'
  <2> SUFFICES ASSUME NEW m \in Names, pm'[m] = 0, ~DeletionAhead(commands')
               PROVE  \A a \in {making[m], deals'[m]} : a = NoAgreement \/ a.late
    BY <1>1 DEF DealsFollow
  <2>1. m # n /\ pm[m] = 0
    BY <1>1, <1>2 DEF n
  <2>2. ~DeletionAhead(commands)
    <3>1. commands \in Seq(Commands) /\ commands # <<>> /\ Head(commands).kind # "policyDeleted"
      BY <1>1, <1>2, PolicyTypes DEF QueueTypes, Is, Next1
    <3> QED BY <3>1, <1>1, DeletionTail DEF Taken
  <2>3. \A a \in {making[m], deals[m]} : a = NoAgreement \/ a.late
    BY <2>1, <2>2 DEF PolicyInv, DealsFollow
  <2> QED BY <2>1, <2>3, <1>5
<1>7. PoliciesTypeOK'
  BY <1>1, <1>2, <1>5, TypesNextAre, PolicyTypes DEF ExchangeTypes, ManagerTypes, QueueTypes, AgreedTypes
<1> QED BY <1>1, <1>2, <1>6, <1>7 DEF PolicyInv, MadeForPolicy

LEMMA PolicyDeletedView ==
  ASSUME PolicyInv, PolicyDeletedCommand
  PROVE  PolicyInv'
<1>1. /\ Is("policyDeleted") /\ Taken /\ pm' = [pm EXCEPT ![Next1.name] = 0]
      /\ UNCHANGED <<exPolicies, exServed, exSvc, served, entries, files, watched, running>>
      /\ deals' = [n \in Names |-> IF pm'[n] = 0 THEN NoAgreement ELSE deals[n]]
      /\ making' = [n \in Names |-> [making[n] EXCEPT !.late = @ \/ (making[n].ver # 0 /\ pm'[n] = 0)]]
  BY DEF PolicyDeletedCommand, exchangeSide
<1>2. Next1.ver = 0
  <2>1. Next1 \in Commands
    BY <1>1, PolicyTypes, HeadTailProperties DEF Is, Next1, QueueTypes
  <2> QED BY <2>1, <1>1, CommandFacts DEF Is
<1>3. /\ pm' \in [Names -> Versions] /\ commands' \in Seq(Commands) /\ ViewFollows'
  BY <1>1, <1>2, ViewCommand
<1>4. deals \in [Names -> Agreed] /\ making \in [Names -> Agreed]
  BY PolicyTypes DEF AgreedTypes
<1>5. deals' \in [Names -> Agreed]
  BY <1>1, <1>4, NoneAgreed
<1>6. ASSUME NEW n \in Names
      PROVE  /\ making'[n] \in Agreed
             /\ making'[n] # NoAgreement => making[n] # NoAgreement /\ making'[n].ver = making[n].ver
             /\ making'[n].late = (making[n].late \/ (making[n].ver # 0 /\ pm'[n] = 0))
  <2>1. making[n] \in Agreed /\ making'[n] = [making[n] EXCEPT !.late = @ \/ (making[n].ver # 0 /\ pm'[n] = 0)]
    BY <1>1, <1>4
  <2> DEFINE over == making[n].late \/ (making[n].ver # 0 /\ pm'[n] = 0)
  <2>0. over \in BOOLEAN
    BY Zenon
  <2> HIDE DEF over
  <2>2. making'[n] = [ver |-> making[n].ver, svc |-> making[n].svc, late |-> over]
    <3>1. making'[n] = [making[n] EXCEPT !.late = over]
      BY <2>1, Zenon DEF over
    <3> QED BY <3>1, <2>1 DEF Agreed
  <2>3. making'[n] \in Agreed
    BY <2>0, <2>1, <2>2 DEF Agreed
  <2>4. making[n] = NoAgreement => making'[n] = NoAgreement
    <3> HAVE making[n] = NoAgreement
    <3>1. making[n].ver = 0 /\ making[n].late = FALSE /\ making[n].svc = -1
      BY DEF NoAgreement
    <3>2. over = FALSE
      BY <3>1 DEF over
    <3> QED BY <3>1, <3>2, <2>2 DEF NoAgreement
  <2>5. making'[n].ver = making[n].ver /\ making'[n].late = over
    BY <2>2
  <2> QED BY <2>3, <2>4, <2>5 DEF over
<1>7. making' \in [Names -> Agreed]
  BY <1>1, <1>6
<1>8. MadeForPolicy'
  BY <1>6 DEF PolicyInv, MadeForPolicy
<1>9. DealsFollow'
  <2> SUFFICES ASSUME NEW n \in Names, pm'[n] = 0
               PROVE  \A a \in {making'[n], deals'[n]} : a = NoAgreement \/ a.late
    BY DEF DealsFollow
  <2>1. deals'[n] = NoAgreement
    BY <1>1
  <2>2. making'[n] = NoAgreement \/ making'[n].late
    BY <1>6 DEF PolicyInv, MadeForPolicy
  <2> QED BY <2>1, <2>2
<1>10. PoliciesTypeOK'
  BY <1>1, <1>3, <1>5, <1>7, TypesNextAre, PolicyTypes DEF ExchangeTypes, ManagerTypes, QueueTypes, AgreedTypes
<1> QED BY <1>3, <1>8, <1>9, <1>10 DEF PolicyInv

\* The agreement workers.
LEMMA InitiateView ==
  ASSUME PolicyInv, NEW n \in Names, InitiateNewAgreement(n)
  PROVE  PolicyInv'
<1>1. /\ pm[n] # 0 /\ making[n] = NoAgreement
      /\ UNCHANGED <<exPolicies, exServed, exSvc, served, entries, files, watched, pm, running, deals>>
  BY DEF InitiateNewAgreement, exchangeSide
<1>2. /\ pm[n] \in Versions /\ making \in [Names -> Agreed] /\ deals \in [Names -> Agreed]
      /\ exSvc \in SvcVersions /\ commands \in Seq(Commands) /\ entries \in [Policies -> Entries]
  BY PolicyTypes DEF AgreedTypes, ExchangeTypes, ManagerTypes, QueueTypes
<1>3. \E svc \in SvcVersions \cup {-1} :
        /\ making' = [making EXCEPT ![n] = [ver |-> pm[n], svc |-> svc, late |-> FALSE]]
        /\ \/ commands' = commands
           \/ svc \in SvcVersions /\ n \in Policies /\ commands' = Append(commands, Cmd("cacheSvcPolicy", n, svc))
  <2>1. CASE n \in Patterns
    <3>1. making' = [making EXCEPT ![n] = [ver |-> pm[n], svc |-> -1, late |-> FALSE]] /\ commands' = commands
      BY <2>1 DEF InitiateNewAgreement
    <3> QED BY <3>1
  <2>2. CASE n \notin Patterns
    <3> DEFINE known == entries[n].svc # -1
               svc == IF known THEN entries[n].svc ELSE exSvc
    <3>1. n \in Policies
      BY <2>2 DEF Names
    <3>2. svc \in SvcVersions
      BY <3>1, <1>2 DEF Entries
    <3>3. /\ making' = [making EXCEPT ![n] = [ver |-> pm[n], svc |-> svc, late |-> FALSE]]
          /\ commands' = commands \/ commands' = Append(commands, Cmd("cacheSvcPolicy", n, svc))
      BY <2>2, Zenon DEF InitiateNewAgreement
    <3> QED BY <3>1, <3>2, <3>3
  <2> QED BY <2>1, <2>2
<1>4. PICK svc \in SvcVersions \cup {-1} :
        /\ making' = [making EXCEPT ![n] = [ver |-> pm[n], svc |-> svc, late |-> FALSE]]
        /\ \/ commands' = commands
           \/ svc \in SvcVersions /\ n \in Policies /\ commands' = Append(commands, Cmd("cacheSvcPolicy", n, svc))
  BY <1>3
<1>5. making' \in [Names -> Agreed] /\ \A m \in Names : m # n => making'[m] = making[m]
  BY <1>2, <1>4 DEF Agreed
<1>6. making'[n].ver = pm[n]
  BY <1>2, <1>4
<1>7. Keeps(commands, commands')
  <2>1. CASE commands' = commands
    BY <2>1, <1>2, KeepsItself
  <2>2. CASE svc \in SvcVersions /\ n \in Policies /\ commands' = Append(commands, Cmd("cacheSvcPolicy", n, svc))
    <3> DEFINE c == Cmd("cacheSvcPolicy", n, svc)
    <3>1. c \in Commands /\ OtherKind(c)
      BY <2>2 DEF Cmd, Commands, OtherKind
    <3> HIDE DEF c
    <3>2. commands' = Append(commands, c)
      BY <2>2 DEF c
    <3> QED BY <3>1, <3>2, <1>2, KeepsAppend
  <2> QED BY <2>1, <2>2, <1>4
<1>8. ViewFollows' /\ DealsFollow'
  <2>1. \A m \in Names : Held(m)' = Held(m)
    BY <1>1 DEF Held
  <2>2. ASSUME NEW m \in Names
        PROVE  pm[m] # 0 \/ \A a \in {making[m], deals[m]}' : a = NoAgreement \/ a.late \/ a \in {making[m], deals[m]}
    BY <1>1, <1>5
  <2> QED BY <2>1, <2>2, <1>1, <1>7, SameView
<1>9. PoliciesTypeOK'
  BY <1>1, <1>2, <1>5, <1>7, TypesNextAre, PolicyTypes DEF Keeps, ExchangeTypes, ManagerTypes, QueueTypes, AgreedTypes
<1>10. MadeForPolicy'
  BY <1>1, <1>5, <1>6 DEF PolicyInv, MadeForPolicy
<1> QED BY <1>8, <1>9, <1>10 DEF PolicyInv

LEMMA PersistView ==
  ASSUME PolicyInv, NEW n \in Names, PersistAgreement(n)
  PROVE  PolicyInv'
<1>1. /\ making' = [making EXCEPT ![n] = NoAgreement]
      /\ deals' = [deals EXCEPT ![n] = making[n]] \/ deals' = deals
      /\ UNCHANGED <<exPolicies, exServed, exSvc, served, entries, files, watched, pm, commands, running>>
  BY DEF PersistAgreement
<1>2. making \in [Names -> Agreed] /\ deals \in [Names -> Agreed] /\ commands \in Seq(Commands)
  BY PolicyTypes DEF AgreedTypes, QueueTypes
<1>3. making' \in [Names -> Agreed] /\ deals' \in [Names -> Agreed]
  BY <1>1, <1>2, NoneAgreed
<1>4. \A m \in Names : making'[m] \in {making[m], NoAgreement} /\ deals'[m] \in {making[m], deals[m]}
  BY <1>1, <1>2
<1>5. ViewFollows' /\ DealsFollow'
  <2>1. \A m \in Names : Held(m)' = Held(m)
    BY <1>1 DEF Held
  <2>2. Keeps(commands, commands')
    BY <1>1, <1>2, KeepsItself
  <2>3. \A m \in Names : \A a \in {making[m], deals[m]}' : a = NoAgreement \/ a \in {making[m], deals[m]}
    BY <1>4
  <2> QED BY <2>1, <2>2, <2>3, <1>1, SameView
<1>6. PoliciesTypeOK'
  BY <1>1, <1>3, TypesNextAre, PolicyTypes DEF ExchangeTypes, ManagerTypes, QueueTypes, AgreedTypes
<1>7. MadeForPolicy'
  BY <1>4 DEF PolicyInv, MadeForPolicy
<1> QED BY <1>5, <1>6, <1>7 DEF PolicyInv

-----------------------------------------------------------------------------
LEMMA PolicyInvInit == PoliciesInit => PolicyInv
<1> SUFFICES ASSUME PoliciesInit PROVE PolicyInv
  OBVIOUS
<1>1. 1 \in Versions /\ 0 \in Versions /\ 1 \in SvcVersions
  BY PolicyBounds DEF Versions, SvcVersions
<1>2. ExchangeTypes /\ ManagerTypes
  <2>1. [p \in Policies |-> [hash |-> 1, ver |-> 1, svc |-> -1]] \in [Policies -> Entries]
    BY <1>1 DEF Entries
  <2> QED BY <1>1, <2>1 DEF PoliciesInit, ExchangeTypes, ManagerTypes
<1>3. QueueTypes /\ AgreedTypes
  BY IdleState, NoneAgreed, EmptySeq DEF PoliciesInit, QueueTypes, AgreedTypes
<1>4. ViewFollows
  BY DEF PoliciesInit, ViewFollows, Leads, Held, Names
<1>5. DealsFollow /\ MadeForPolicy
  BY DEF PoliciesInit, DealsFollow, MadeForPolicy
<1> QED BY <1>2, <1>3, <1>4, <1>5, TypesAre DEF PolicyInv

LEMMA PolicyInvStep == PolicyInv /\ [PoliciesNext]_policyVars => PolicyInv'
<1> SUFFICES ASSUME PolicyInv, [PoliciesNext]_policyVars PROVE PolicyInv'
  OBVIOUS
<1>1. ASSUME NEW n \in Names, NEW v \in Versions, EditPolicy(n, v) PROVE PolicyInv'
  BY <1>1, EditPolicyView
<1>2. ASSUME NEW n \in Names, EditServedPolicies(n) \/ InitiateNewAgreement(n) \/ PersistAgreement(n) PROVE PolicyInv'
  BY <1>2, EditServedView, InitiateView, PersistView
<1>3. ASSUME NEW v \in 0..MaxSvcVersion, EditServicePolicy(v) PROVE PolicyInv'
  BY <1>3, EditServicePolicyView DEF SvcVersions
<1>4. ASSUME NEW g \in Goroutines,
             \/ Fetch(g) \/ FetchFails(g) \/ generatePolicyFromBusinessPols(g)
             \/ generatePolicyFromPatterns(g) \/ updateServicePolicies(g)
      PROVE  PolicyInv'
  BY <1>4, FetchView, GeneratePoliciesView, GeneratePatternsView, UpdateServiceView
<1>5. CASE PolicyFileChangeWatcher
  BY <1>5, WatcherView
<1>6. CASE ChangeCommand \/ ServedPolicyCommand \/ ServedPatternCommand
  BY <1>6, ChangeCommandView, ServedPolicyView, ServedPatternView
<1>7. CASE PolicyChangedCommand \/ PolicyDeletedCommand
  BY <1>7, PolicyChangedView, PolicyDeletedView
<1>8. CASE CacheServicePolicyCommand \/ ServicePolicyChangedCommand \/ ServicePolicyDeletedCommand
  BY <1>8, CacheServicePolicyView, ServicePolicyChangedView, ServicePolicyDeletedView
<1>9. CASE UNCHANGED policyVars
  BY <1>9 DEF policyVars, PolicyInv, PoliciesTypeOK, ViewFollows, DealsFollow, MadeForPolicy, Held
<1> QED BY <1>1, <1>2, <1>3, <1>4, <1>5, <1>6, <1>7, <1>8, <1>9 DEF PoliciesNext

(* Type correctness of the managers, the policy manager, the queue of commands
   and the agreements (PoliciesTypeOK). *)
THEOREM PoliciesTypeCorrect == PoliciesSpec => []PoliciesTypeOK
<1>1. PolicyInv => PoliciesTypeOK
  BY DEF PolicyInv
<1> QED BY <1>1, PolicyInvInit, PolicyInvStep, PTL DEF PoliciesSpec

(* Once the events are handled, the policy manager holds what the business
   policy manager and the pattern files hold, whichever goroutines overtook
   each other and whichever reads of the exchange failed
   (businesspol_manager.go updateBusinessPolicy, deleteBusinessPolicy). *)
THEOREM PolicyViewHolds == PoliciesSpec => []PolicyViewSettles
<1>1. PolicyInv => PolicyViewSettles
  <2> SUFFICES ASSUME PolicyInv, Settled
               PROVE  /\ \A p \in Policies : pm[p] = entries[p].ver
                      /\ \A p \in Patterns : pm[p] = files[p]
    BY DEF PolicyViewSettles
  <2>1. ASSUME NEW n \in Names PROVE pm[n] = Held(n)
    <3>1. Leads(<<>>, n, pm[n], Held(n))
      BY DEF PolicyInv, ViewFollows, Settled
    <3> QED BY <3>1 DEF Leads
  <2>2. \A p \in Patterns : p \notin Policies
    BY PolicyNames
  <2> QED BY <2>1, <2>2 DEF Held, Names, Settled
<1> QED BY <1>1, PolicyInvInit, PolicyInvStep, PTL DEF PoliciesSpec

(* An agreement outlives its policy only if it was being made when the deletion
   was handled (consumer_protocol_handler.go HandlePolicyDeleted). *)
THEOREM DealsEndWithPolicy == PoliciesSpec => []DealOutlivesPolicyOnlyIfLate
<1>1. PolicyInv => DealOutlivesPolicyOnlyIfLate
  <2> SUFFICES ASSUME PolicyInv, Settled, NEW n \in Names, deals[n] # NoAgreement, pm[n] = 0
               PROVE  deals[n].late
    BY DEF DealOutlivesPolicyOnlyIfLate
  <2>1. ~DeletionAhead(commands)
    BY DEF Settled, DeletionAhead
  <2> QED BY <2>1 DEF PolicyInv, DealsFollow
<1> QED BY <1>1, PolicyInvInit, PolicyInvStep, PTL DEF PoliciesSpec

-----------------------------------------------------------------------------
(* The model objects that the agbot places. *)

\* What is on its way to the cache, and to the workers.
Items(q) == UNION {Range(q[k]) : k \in DOMAIN q}
Changes(q) == {e \in Range(q) : e.kind = "object"}
ReportOf(o) == \E item \in Items(polled) : item.pol.obj = o
ChangeOf(o) == \E e \in Changes(objectWork) : e.new.obj = o

\* Nothing was placed and nothing will be before the cache has a policy of o.
Unplaced(o) ==
  /\ orgMap[o] = NoPolicy /\ css[o].dests = {} /\ ~ChangeOf(o)
  /\ \A w \in Posters, n \in ObjectNodes : <<o, n>> \notin posting[w].add \cup posting[w].delete

Unpublished ==
  \A o \in Objects : css[o].pol = NoPolicy => Unplaced(o) /\ ~ReportOf(o) /\ o \notin changed \cup again

\* The object was published once.
Once(o) == css[o].pol.ver = 1 /\ o \notin gone \cup forgotten

\* All that is under way about an object published once has its only policy.
OnePolicy ==
  \A o \in Objects : Once(o) =>
    /\ orgMap[o] \in {NoPolicy, css[o].pol}
    /\ \A item \in Items(polled) : item.pol.obj = o => item.pol = css[o].pol
    /\ \A e \in Changes(objectWork) : e.new.obj = o => e.new = css[o].pol

\* Until the cache has the policy nothing is placed, and the policy is on its way.
CachedOrFresh ==
  \A o \in Objects : Once(o) /\ orgMap[o] = NoPolicy =>
    /\ Unplaced(o) /\ (o \in changed \/ ReportOf(o))
    /\ \A item \in Items(polled) : item.pol.obj = o => item.dests = {}

\* A change that comes with destinations does not come with other services.
NoLossByChange ==
  \A o \in Objects : Once(o) =>
    \A e \in Changes(objectWork) : e.new.obj = o => e.dests = {} \/ e.old.services = e.new.services

NoRefusal == \A n \in ObjectNodes, o \in Objects : nodeEdits[n] = 0 => <<o, n>> \notin refusing

Wanted(o, n) == Once(o) /\ nodeEdits[n] = 0 /\ n \in css[o].pol.nodes

\* A node that is wanted is not removed, and who believes it has the object is right.
NotRemoved ==
  \A o \in Objects, n \in ObjectNodes : Wanted(o, n) =>
    /\ \A w \in Posters : <<o, n>> \notin posting[w].delete
    /\ \A item \in Items(polled) : item.pol.obj = o /\ n \in item.dests => n \in css[o].dests
    /\ \A e \in Changes(objectWork) : e.new.obj = o /\ n \in e.dests => n \in css[o].dests

\* The object is on the node, or on its way there.
OnItsWay(o, n) ==
  \/ n \in css[o].dests \/ o \in changed \/ ReportOf(o) \/ ChangeOf(o)
  \/ \E w \in Posters : <<o, n>> \in posting[w].add
Due(o, n) == /\ Wanted(o, n) /\ <<o, n>> \notin missed
             /\ \E s \in css[o].pol.services : placements[<<n, s>>] \in {"replied", "running"}
Arriving == \A o \in Objects, n \in ObjectNodes : Due(o, n) => OnItsWay(o, n)

ObjectsInv ==
  /\ ObjectsTypeOK /\ Unpublished /\ OnePolicy /\ CachedOrFresh /\ NoLossByChange /\ NoRefusal
  /\ NotRemoved /\ Arriving

-----------------------------------------------------------------------------
\* What the queues carry when something is put in and taken out.
LEMMA ItemsAppend ==
  ASSUME NEW I, NEW q \in Seq(Seq(I)), NEW b \in Seq(I)
  PROVE  Append(q, b) \in Seq(Seq(I)) /\ Items(Append(q, b)) = Items(q) \cup Range(b)
<1> DEFINE r == Append(q, b)
<1>1. /\ r \in Seq(Seq(I)) /\ DOMAIN q = 1..Len(q) /\ DOMAIN r = 1..(Len(q) + 1) /\ Len(q) \in Nat
      /\ \A k \in 1..Len(q) : r[k] = q[k]
      /\ r[Len(q) + 1] = b
  OBVIOUS
<1> HIDE DEF r
<1>2. \A x : x \in Items(r) <=> \E k \in DOMAIN r : x \in Range(r[k])
  BY DEF Items
<1>3. \A x : x \in Items(q) <=> \E k \in DOMAIN q : x \in Range(q[k])
  BY DEF Items
<1>4. \A k : k \in DOMAIN r <=> k \in DOMAIN q \/ k = Len(q) + 1
  BY <1>1
<1>5. \A x : x \in Items(r) <=> x \in Items(q) \/ x \in Range(b)
  BY <1>1, <1>2, <1>3, <1>4
<1> QED BY <1>1, <1>5 DEF r

LEMMA ItemsTail ==
  ASSUME NEW I, NEW q \in Seq(Seq(I)), q # <<>>
  PROVE  Head(q) \in Seq(I) /\ Tail(q) \in Seq(Seq(I)) /\ Items(q) = Range(Head(q)) \cup Items(Tail(q))
<1> DEFINE r == Tail(q)
<1>1. /\ r \in Seq(Seq(I)) /\ DOMAIN q = 1..Len(q) /\ DOMAIN r = 1..(Len(q) - 1) /\ Len(q) \in Nat \ {0}
      /\ \A k \in 1..(Len(q) - 1) : r[k] = q[k + 1]
      /\ q[1] = Head(q) /\ Head(q) \in Seq(I)
  OBVIOUS
<1> HIDE DEF r
<1>2. \A x : x \in Items(r) <=> \E k \in DOMAIN r : x \in Range(r[k])
  BY DEF Items
<1>3. \A x : x \in Items(q) <=> \E k \in DOMAIN q : x \in Range(q[k])
  BY DEF Items
<1>4. ASSUME NEW x PROVE x \in Items(q) => x \in Items(r) \/ x \in Range(Head(q))
  <2> SUFFICES ASSUME NEW k \in DOMAIN q, x \in Range(q[k]), k # 1 PROVE x \in Items(r)
    BY <1>1, <1>3
  <2>1. k - 1 \in DOMAIN r /\ r[k - 1] = q[k]
    BY <1>1
  <2> QED BY <1>2, <2>1
<1>5. ASSUME NEW x PROVE x \in Items(r) \/ x \in Range(Head(q)) => x \in Items(q)
  <2>1. \A k \in DOMAIN r : k + 1 \in DOMAIN q /\ r[k] = q[k + 1]
    BY <1>1
  <2>2. 1 \in DOMAIN q
    BY <1>1
  <2> QED BY <1>1, <1>2, <1>3, <2>1, <2>2
<1> QED BY <1>1, <1>4, <1>5 DEF r

LEMMA ChangesAppend ==
  ASSUME NEW E, NEW q \in Seq(E), NEW e \in E, e.kind # "object"
  PROVE  Append(q, e) \in Seq(E) /\ Changes(Append(q, e)) = Changes(q)
<1> DEFINE r == Append(q, e)
<1>1. /\ r \in Seq(E) /\ DOMAIN q = 1..Len(q) /\ DOMAIN r = 1..(Len(q) + 1) /\ Len(q) \in Nat
      /\ \A k \in 1..Len(q) : r[k] = q[k]
      /\ r[Len(q) + 1] = e
  OBVIOUS
<1> HIDE DEF r
<1>2. \A k : k \in DOMAIN r <=> k \in DOMAIN q \/ k = Len(q) + 1
  BY <1>1
<1>3. \A x : x \in Range(r) <=> x \in Range(q) \/ x = e
  BY <1>1, <1>2 DEF Range
<1>4. \A x : x \in Changes(r) <=> x \in Changes(q)
  BY <1>3 DEF Changes
<1> QED BY <1>1, <1>4 DEF r

LEMMA ChangesJoin ==
  ASSUME NEW E, NEW q \in Seq(E), NEW b \in Seq(E), \A e \in Range(b) : e.kind = "object"
  PROVE  q \o b \in Seq(E) /\ Changes(q \o b) = Changes(q) \cup Range(b)
<1> DEFINE r == q \o b
<1>1. /\ r \in Seq(E) /\ DOMAIN q = 1..Len(q) /\ DOMAIN b = 1..Len(b) /\ DOMAIN r = 1..(Len(q) + Len(b))
      /\ Len(q) \in Nat /\ Len(b) \in Nat
      /\ \A k \in 1..(Len(q) + Len(b)) : r[k] = IF k <= Len(q) THEN q[k] ELSE b[k - Len(q)]
  OBVIOUS
<1> HIDE DEF r
<1>2. \A k \in DOMAIN q : k \in DOMAIN r /\ r[k] = q[k]
  BY <1>1
<1>3. \A k \in DOMAIN b : k + Len(q) \in DOMAIN r /\ r[k + Len(q)] = b[k]
  BY <1>1
<1>4. \A k \in DOMAIN r : k \in DOMAIN q \/ k - Len(q) \in DOMAIN b
  BY <1>1
<1>5. \A k \in DOMAIN r : r[k] \in Range(q) \/ r[k] \in Range(b)
  BY <1>1, <1>4 DEF Range
<1>6. \A x : x \in Range(r) <=> x \in Range(q) \/ x \in Range(b)
  BY <1>2, <1>3, <1>5 DEF Range
<1>7. \A x : x \in Changes(r) <=> x \in Changes(q) \/ x \in Range(b)
  BY <1>6 DEF Changes
<1> QED BY <1>1, <1>7 DEF r

LEMMA ChangesTail ==
  ASSUME NEW E, NEW q \in Seq(E), q # <<>>
  PROVE  /\ Head(q) \in E /\ Tail(q) \in Seq(E)
         /\ \A e : e \in Changes(q) <=> e \in Changes(Tail(q)) \/ (e = Head(q) /\ e.kind = "object")
<1> DEFINE r == Tail(q)
<1>1. /\ r \in Seq(E) /\ DOMAIN q = 1..Len(q) /\ DOMAIN r = 1..(Len(q) - 1) /\ Len(q) \in Nat \ {0}
      /\ \A k \in 1..(Len(q) - 1) : r[k] = q[k + 1]
      /\ q[1] = Head(q) /\ Head(q) \in E
  OBVIOUS
<1> HIDE DEF r
<1>2. \A k \in DOMAIN r : k + 1 \in DOMAIN q /\ r[k] = q[k + 1]
  BY <1>1
<1>3. \A k \in DOMAIN q : k = 1 \/ (k - 1 \in DOMAIN r /\ r[k - 1] = q[k])
  BY <1>1
<1>4. 1 \in DOMAIN q
  BY <1>1
<1>5. \A k \in DOMAIN q : q[k] = Head(q) \/ q[k] \in Range(r)
  BY <1>1, <1>3 DEF Range
<1>6. \A x : x \in Range(q) <=> x \in Range(r) \/ x = Head(q)
  BY <1>1, <1>2, <1>4, <1>5 DEF Range
<1> QED BY <1>1, <1>6 DEF Changes, r

-----------------------------------------------------------------------------
\* What the types say.
LEMMA PolicyFacts ==
  /\ NoPolicy.ver = 0 /\ NoPolicy.services = {} /\ NoPolicy \notin ObjectPolicies
  /\ \A p \in ObjectPolicies : /\ p # NoPolicy /\ p.obj \in Objects /\ p.ver \in 1..MaxPublished
                               /\ p.services \subseteq ObjectServices /\ p.services # {}
                               /\ p.nodes \subseteq ObjectNodes
<1>1. NoPolicy.ver = 0 /\ NoPolicy.services = {}
  BY DEF NoPolicy
<1>2. \A p \in ObjectPolicies : /\ p.obj \in Objects /\ p.ver \in 1..MaxPublished
                                /\ p.services \in (SUBSET ObjectServices) \ {{}}
                                /\ p.nodes \in SUBSET ObjectNodes
  BY DEF ObjectPolicies
<1>3. \A p \in ObjectPolicies : p.services # {}
  BY <1>2
<1>4. \A p \in ObjectPolicies : p # NoPolicy
  BY <1>1, <1>3
<1> QED BY <1>1, <1>2, <1>3, <1>4

LEMMA QueueFacts ==
  ASSUME ObjectsTypeOK
  PROVE  /\ \A item \in Items(polled) : item \in ObjectItems
         /\ \A e \in Changes(objectWork) : e \in ObjectWork /\ e.kind = "object"
<1>1. polled \in Seq(Seq(ObjectItems)) /\ objectWork \in Seq(ObjectWork)
  BY DEF ObjectsTypeOK
<1>2. \A k \in DOMAIN polled : polled[k] \in Seq(ObjectItems)
  BY <1>1
<1>3. \A k \in DOMAIN polled : \A i \in DOMAIN polled[k] : polled[k][i] \in ObjectItems
  BY <1>2
<1>4. \A item \in Items(polled) : item \in ObjectItems
  BY <1>3 DEF Items, Range
<1>5. \A e \in Range(objectWork) : e \in ObjectWork
  BY <1>1 DEF Range
<1> QED BY <1>4, <1>5 DEF Changes

LEMMA ItemFacts ==
  \A item \in ObjectItems : /\ item.pol \in ObjectPolicies /\ item.dests \subseteq ObjectNodes
                            /\ item = [pol |-> item.pol, dests |-> item.dests]
BY DEF ObjectItems

LEMMA ChangeFacts ==
  \A e \in ObjectWork : e.kind = "object" => /\ e.new \in ObjectPolicies /\ e.dests \subseteq ObjectNodes
                                             /\ e.old \in ObjectPolicies \cup {NoPolicy}
BY DEF ObjectWork

LEMMA CssFacts ==
  ASSUME ObjectsTypeOK, NEW o \in Objects
  PROVE  /\ css[o].pol \in ObjectPolicies \cup {NoPolicy} /\ css[o].dests \subseteq ObjectNodes
         /\ css[o].pol.ver \in 0..MaxPublished /\ (css[o].pol = NoPolicy <=> css[o].pol.ver = 0)
         /\ (css[o].pol # NoPolicy => css[o].pol \in ObjectPolicies /\ css[o].pol.obj = o)
         /\ orgMap[o] \in ObjectPolicies \cup {NoPolicy}
         /\ (orgMap[o] # NoPolicy => orgMap[o] \in ObjectPolicies /\ orgMap[o].obj = o)
<1>1. css[o] \in [pol : ObjectPolicies \cup {NoPolicy}, dests : SUBSET ObjectNodes]
  BY DEF ObjectsTypeOK
<1>2. css[o].pol \in ObjectPolicies \cup {NoPolicy} /\ css[o].dests \subseteq ObjectNodes
  BY <1>1
<1>3. orgMap[o] \in ObjectPolicies \cup {NoPolicy}
  BY DEF ObjectsTypeOK
<1>4. \A pol \in {css[o].pol, orgMap[o]} : pol = NoPolicy \/ pol.obj = o
  BY DEF ObjectsTypeOK
<1>5. MaxPublished \in Nat
  BY ObjectBounds
<1> QED BY <1>2, <1>3, <1>4, <1>5, PolicyFacts

LEMMA OnceFacts ==
  ASSUME ObjectsTypeOK, NEW o \in Objects, Once(o)
  PROVE  css[o].pol # NoPolicy /\ css[o].pol \in ObjectPolicies /\ css[o].pol.obj = o
BY CssFacts DEF Once

-----------------------------------------------------------------------------
\* A step that concerns the object o alone, and neither the queues nor the cache,
\* leaves what the invariant says of the others.
LEMMA PublishObjectInv ==
  ASSUME ObjectsInv, NEW o \in Objects, NEW ss \in (SUBSET ObjectServices) \ {{}},
         NEW ns \in SUBSET ObjectNodes, PublishObject(o, ss, ns)
  PROVE  ObjectsInv'
<1> USE DEF ObjectsInv
<1> DEFINE pol == Policy(o, css[o].pol.ver + 1, ss, ns)
<1>1. ObjectsTypeOK
  OBVIOUS
<1>2. /\ o \notin gone /\ css[o].pol.ver < MaxPublished
      /\ css' = [css EXCEPT ![o] = [pol |-> pol, dests |-> css[o].dests]]
      /\ changed' = changed \cup {o} /\ again' = again /\ polled' = polled /\ orgMap' = orgMap
      /\ objectWork' = objectWork /\ posting' = posting /\ placements' = placements /\ gone' = gone /\ forgotten' = forgotten /\ orgServed' = orgServed
      /\ recheck' = recheck /\ refusing' = refusing /\ nodeEdits' = nodeEdits /\ mishaps' = mishaps
      /\ missed' = missed
  BY DEF PublishObject
<1>3. css[o].pol.ver \in 0..MaxPublished /\ css[o].dests \subseteq ObjectNodes
  BY <1>1, CssFacts
<1>4. pol \in ObjectPolicies /\ pol.obj = o /\ pol.ver = css[o].pol.ver + 1
  BY <1>2, <1>3, ObjectBounds DEF Policy, ObjectPolicies
<1> HIDE DEF pol
<1>5. /\ css'[o].pol = pol /\ css'[o].dests = css[o].dests
      /\ \A p \in Objects \ {o} : css'[p] = css[p]
      /\ css' \in [Objects -> [pol : ObjectPolicies \cup {NoPolicy}, dests : SUBSET ObjectNodes]]
  BY <1>1, <1>2, <1>3, <1>4 DEF ObjectsTypeOK
<1>6. ObjectsTypeOK'
  BY <1>1, <1>2, <1>4, <1>5 DEF ObjectsTypeOK
<1>7. Once(o)' => css[o].pol = NoPolicy
  BY <1>1, <1>2, <1>3, <1>4, <1>5, CssFacts DEF Once
<1>8. css'[o].pol # NoPolicy /\ o \in changed'
  BY <1>2, <1>4, <1>5, PolicyFacts
<1>9. /\ \A p : ReportOf(p)' = ReportOf(p) /\ ChangeOf(p)' = ChangeOf(p)
      /\ \A p \in Objects : Unplaced(p)' = Unplaced(p)
  BY <1>2, <1>5 DEF ReportOf, ChangeOf, Unplaced
<1>10. /\ \A p \in Objects \ {o} : Once(p)' = Once(p)
       /\ \A p \in Objects \ {o} : \A n \in ObjectNodes : Wanted(p, n)' = Wanted(p, n)
  BY <1>2, <1>5 DEF Once, Wanted
<1>11. Unpublished'
  BY <1>2, <1>5, <1>8, <1>9 DEF Unpublished
<1>12. Once(o)' => Unplaced(o) /\ ~ReportOf(o)
  BY <1>7 DEF Unpublished
<1>13. OnePolicy'
  BY <1>2, <1>5, <1>10, <1>12 DEF OnePolicy, Unplaced, ReportOf, ChangeOf
<1>14. CachedOrFresh'
  BY <1>2, <1>5, <1>8, <1>9, <1>10, <1>12 DEF CachedOrFresh, ReportOf
<1>15. NoLossByChange'
  BY <1>2, <1>10, <1>12 DEF NoLossByChange, Unplaced, ChangeOf
<1>16. NoRefusal'
  BY <1>2 DEF NoRefusal
<1>17. NotRemoved'
  BY <1>2, <1>5, <1>10, <1>12 DEF NotRemoved, Unplaced, ReportOf, ChangeOf, Wanted
<1>18. Arriving'
  <2> SUFFICES ASSUME NEW p \in Objects, NEW n \in ObjectNodes, Due(p, n)', p # o PROVE OnItsWay(p, n)'
    BY <1>8 DEF Arriving, OnItsWay
  <2>1. Due(p, n)
    BY <1>2, <1>5, <1>10 DEF Due
  <2>2. OnItsWay(p, n)
    BY <2>1 DEF Arriving
  <2> QED BY <1>2, <1>5, <1>9, <2>2 DEF OnItsWay
<1> QED BY <1>6, <1>11, <1>13, <1>14, <1>15, <1>16, <1>17, <1>18

LEMMA DeleteObjectInv ==
  ASSUME ObjectsInv, NEW o \in Objects, DeleteObject(o)
  PROVE  ObjectsInv'
<1> USE DEF ObjectsInv
<1>1. ObjectsTypeOK
  OBVIOUS
<1>2. /\ css[o].pol # NoPolicy
      /\ gone' = gone \cup {o} /\ forgotten' = forgotten /\ orgServed' = orgServed /\ changed' = changed \ {o} /\ again' = again \ {o}
      /\ css' = css /\ polled' = polled /\ orgMap' = orgMap
      /\ objectWork' = objectWork /\ posting' = posting /\ placements' = placements
      /\ recheck' = recheck /\ refusing' = refusing /\ nodeEdits' = nodeEdits /\ mishaps' = mishaps
      /\ missed' = missed
  BY DEF DeleteObject
<1>3. ObjectsTypeOK'
  BY <1>1, <1>2 DEF ObjectsTypeOK
<1>4. /\ \A p \in Objects : ReportOf(p)' = ReportOf(p) /\ ChangeOf(p)' = ChangeOf(p)
      /\ \A p \in Objects : Unplaced(p)' = Unplaced(p)
  BY <1>2 DEF ReportOf, ChangeOf, Unplaced
<1>5. /\ ~Once(o)'
      /\ \A p \in Objects \ {o} : Once(p)' = Once(p) /\ (p \in changed' <=> p \in changed)
      /\ \A p \in Objects : \A n \in ObjectNodes : Wanted(p, n)' => p # o /\ Wanted(p, n)
  BY <1>2 DEF Once, Wanted
<1>6. Unpublished'
  BY <1>2, <1>4 DEF Unpublished
<1>7. OnePolicy'
  BY <1>2, <1>5 DEF OnePolicy
<1>8. CachedOrFresh'
  BY <1>2, <1>4, <1>5 DEF CachedOrFresh
<1>9. NoLossByChange'
  BY <1>2, <1>5 DEF NoLossByChange
<1>10. NoRefusal'
  BY <1>2 DEF NoRefusal
<1>11. NotRemoved'
  BY <1>2, <1>5 DEF NotRemoved
<1>12. Arriving'
  BY <1>2, <1>4, <1>5 DEF Arriving, OnItsWay, Due
<1> QED BY <1>3, <1>6, <1>7, <1>8, <1>9, <1>10, <1>11, <1>12

\* A step that leaves the objects, the cache, the queues and what is posted.
LEMMA QuietObjects ==
  ASSUME ObjectsInv, ObjectsTypeOK', css' = css, changed' = changed, again' = again, polled' = polled,
         orgMap' = orgMap, Changes(objectWork)' = Changes(objectWork), posting' = posting, gone' = gone, forgotten' = forgotten, orgServed' = orgServed, missed' = missed,
         \A n \in ObjectNodes : nodeEdits'[n] = 0 => nodeEdits[n] = 0,
         NoRefusal',
         \A n \in ObjectNodes, s \in ObjectServices :
           placements'[<<n, s>>] \in {"replied", "running"} => placements[<<n, s>>] \in {"replied", "running"}
  PROVE  ObjectsInv'
<1> USE DEF ObjectsInv
<1>1. /\ \A p \in Objects : ReportOf(p)' = ReportOf(p) /\ ChangeOf(p)' = ChangeOf(p)
      /\ \A p \in Objects : Unplaced(p)' = Unplaced(p) /\ Once(p)' = Once(p)
  BY DEF ReportOf, ChangeOf, Unplaced, Once
<1>2. \A p \in Objects : \A n \in ObjectNodes : Wanted(p, n)' => Wanted(p, n)
  BY <1>1 DEF Wanted
<1>3. Unpublished'
  BY <1>1 DEF Unpublished
<1>4. OnePolicy'
  BY <1>1 DEF OnePolicy
<1>5. CachedOrFresh'
  BY <1>1 DEF CachedOrFresh
<1>6. NoLossByChange'
  BY <1>1 DEF NoLossByChange
<1>7. NotRemoved'
  BY <1>2 DEF NotRemoved
<1>8. \A p \in Objects : css[p].pol.services \subseteq ObjectServices
  BY CssFacts, PolicyFacts
<1>9. \A p \in Objects : \A n \in ObjectNodes : Due(p, n)' => Due(p, n)
  BY <1>2, <1>8 DEF Due
<1>10. Arriving'
  BY <1>1, <1>9 DEF Arriving, OnItsWay
<1> QED BY <1>3, <1>4, <1>5, <1>6, <1>7, <1>10

LEMMA EditNodePolicyInv ==
  ASSUME ObjectsInv, NEW n \in ObjectNodes, NEW os \in SUBSET Objects, EditNodePolicy(n, os)
  PROVE  ObjectsInv'
<1> USE DEF ObjectsInv
<1>1. ObjectsTypeOK /\ nodeEdits[n] \in Nat /\ mishaps \in Nat /\ nodeEdits \in [ObjectNodes -> Nat]
  BY DEF ObjectsTypeOK
<1>2. /\ mishaps' \in Nat
      /\ nodeEdits' = [nodeEdits EXCEPT ![n] = @ + 1]
      /\ refusing' = {x \in refusing : x[2] # n} \cup (os \X {n})
      /\ recheck' = recheck \cup {n} /\ UNCHANGED <<css, changed, again, polled, orgMap, objectWork, posting, placements, gone, forgotten, orgServed, missed>>
  BY <1>1 DEF EditNodePolicy, Mishap
<1>3. nodeEdits' \in [ObjectNodes -> Nat] /\ nodeEdits'[n] # 0 /\ \A m \in ObjectNodes \ {n} : nodeEdits'[m] = nodeEdits[m]
  BY <1>1, <1>2
<1>4. refusing' \subseteq Objects \X ObjectNodes
  BY <1>1, <1>2 DEF ObjectsTypeOK
<1>5. ObjectsTypeOK'
  BY <1>1, <1>2, <1>3, <1>4 DEF ObjectsTypeOK
<1>6. NoRefusal'
  BY <1>2, <1>3 DEF NoRefusal
<1> QED BY <1>2, <1>3, <1>5, <1>6, QuietObjects

LEMMA PlacementInv ==
  ASSUME ObjectsInv, NEW n \in ObjectNodes, NEW s \in ObjectServices,
         MakePlacement(n, s) \/ StartPlacement(n, s) \/ EndPlacement(n, s)
  PROVE  ObjectsInv'
<1> USE DEF ObjectsInv
<1> DEFINE e == [kind |-> "reply", node |-> n, service |-> s]
<1>1. ObjectsTypeOK /\ objectWork \in Seq(ObjectWork) /\ placements \in [ObjectNodes \X ObjectServices -> {"none", "made", "replied", "running"}]
  BY DEF ObjectsTypeOK
<1>2. e \in ObjectWork /\ e.kind # "object"
  BY DEF ObjectWork
<1> HIDE DEF e
<1>0. objectWork' = Append(objectWork, e) \/ objectWork' = objectWork
  BY DEF MakePlacement, StartPlacement, EndPlacement, e
<1>3. objectWork' \in Seq(ObjectWork) /\ Changes(objectWork') = Changes(objectWork)
  <2>1. Append(objectWork, e) \in Seq(ObjectWork) /\ Changes(Append(objectWork, e)) = Changes(objectWork)
    BY <1>1, <1>2, ChangesAppend
  <2> QED BY <1>0, <1>1, <2>1
<1>4. UNCHANGED <<css, changed, again, polled, orgMap, posting, gone, forgotten, orgServed, recheck, refusing, nodeEdits, mishaps, missed>>
  BY DEF MakePlacement, StartPlacement, EndPlacement
<1>5. /\ placements' \in [ObjectNodes \X ObjectServices -> {"none", "made", "replied", "running"}]
      /\ \A x \in ObjectNodes \X ObjectServices :
           placements'[x] \in {"replied", "running"} => placements[x] \in {"replied", "running"}
  BY <1>1 DEF MakePlacement, StartPlacement, EndPlacement
<1>6. ObjectsTypeOK'
  BY <1>1, <1>3, <1>4, <1>5 DEF ObjectsTypeOK
<1>7. NoRefusal'
  BY <1>4 DEF NoRefusal
<1> QED BY <1>3, <1>4, <1>5, <1>6, <1>7, QuietObjects

LEMMA GetUpdatedObjectsInv ==
  ASSUME ObjectsInv, GetUpdatedObjects
  PROVE  ObjectsInv'
<1> USE DEF ObjectsInv
<1> DEFINE M == changed \cup again
           item(o) == [pol |-> css[o].pol, dests |-> css[o].dests]
<1>1. ObjectsTypeOK /\ polled \in Seq(Seq(ObjectItems)) /\ M \subseteq Objects /\ mishaps \in Nat
  BY DEF ObjectsTypeOK
<1>2. /\ changed' = {} /\ again' \subseteq changed /\ mishaps' \in Nat
      /\ css' = css /\ orgMap' = orgMap /\ objectWork' = objectWork /\ posting' = posting
      /\ placements' = placements /\ gone' = gone /\ forgotten' = forgotten /\ orgServed' = orgServed
      /\ recheck' = recheck /\ refusing' = refusing /\ nodeEdits' = nodeEdits /\ missed' = missed
  BY <1>1 DEF GetUpdatedObjects, Mishap
<1>3. PICK order \in SetToSeqs(M) : polled' = Append(polled, [i \in DOMAIN order |-> item(order[i])])
  BY DEF GetUpdatedObjects
<1> DEFINE b == [i \in DOMAIN order |-> item(order[i])]
<1>4. IsFiniteSet(M)
  BY <1>1, ObjectBounds, FS_Subset
<1>5. order \in Seq(M) /\ \A o \in M : \E i \in DOMAIN order : order[i] = o
  BY <1>3, <1>4, ArrangedCarries DEF Carries
<1>6. \A o \in M : css[o].pol # NoPolicy /\ css[o].pol.obj = o /\ css[o].pol \in ObjectPolicies
  BY <1>1, CssFacts DEF Unpublished
<1>7. \A o \in M : item(o) \in ObjectItems
  BY <1>1, <1>6, CssFacts DEF ObjectItems
<1> HIDE DEF item, M
<1>8. \A i \in DOMAIN order : order[i] \in M
  BY <1>5
<1>9. b \in Seq(ObjectItems) /\ DOMAIN b = DOMAIN order /\ \A i \in DOMAIN order : b[i] = item(order[i])
  <2>1. DOMAIN order = 1..Len(order) /\ Len(order) \in Nat
    BY <1>5
  <2> QED BY <1>7, <1>8, <2>1
<1> HIDE DEF b
<1>10. /\ \A x \in Range(b) : \E o \in M : x = item(o)
       /\ \A o \in M : item(o) \in Range(b)
  BY <1>5, <1>8, <1>9 DEF Range
<1>11. polled' \in Seq(Seq(ObjectItems)) /\ Items(polled') = Items(polled) \cup Range(b)
  BY <1>1, <1>3, <1>9, ItemsAppend DEF b
<1>12. ObjectsTypeOK'
  BY <1>1, <1>2, <1>11 DEF ObjectsTypeOK, M
<1>13. \A x \in Range(b) : /\ x.pol.obj \in M /\ x.pol = css[x.pol.obj].pol
                           /\ x.dests = css[x.pol.obj].dests
  BY <1>6, <1>10 DEF item
<1>14. \A o \in Objects : /\ ReportOf(o)' <=> ReportOf(o) \/ o \in M
                          /\ ChangeOf(o)' = ChangeOf(o) /\ Unplaced(o)' = Unplaced(o)
                          /\ Once(o)' = Once(o)
  <2>1. \A o \in M : item(o).pol.obj = o
    BY <1>6 DEF item
  <2> QED BY <1>2, <1>10, <1>11, <1>13, <2>1 DEF ReportOf, ChangeOf, Unplaced, Once
<1>15. \A o \in Objects : \A n \in ObjectNodes : Wanted(o, n)' = Wanted(o, n) /\ Due(o, n)' = Due(o, n)
  BY <1>2, <1>14 DEF Wanted, Due
<1>16. Unpublished'
  BY <1>2, <1>6, <1>14 DEF Unpublished, M
<1>17. OnePolicy'
  BY <1>2, <1>11, <1>13, <1>14 DEF OnePolicy
<1>18. CachedOrFresh'
  BY <1>2, <1>11, <1>13, <1>14 DEF CachedOrFresh, M, Unplaced
<1>19. NoLossByChange'
  BY <1>2, <1>14 DEF NoLossByChange
<1>20. NoRefusal'
  BY <1>2 DEF NoRefusal
<1>21. NotRemoved'
  BY <1>2, <1>11, <1>13, <1>15 DEF NotRemoved
<1>22. Arriving'
  BY <1>2, <1>14, <1>15 DEF Arriving, OnItsWay, M
<1> QED BY <1>12, <1>16, <1>17, <1>18, <1>19, <1>20, <1>21, <1>22

\* A step that only forgets: of an object that is not forgotten nothing is lost.
LEMMA ForgettingInv ==
  ASSUME ObjectsInv, PollSkipsOrg \/ SetCurrentPolicyOrgs \/ UpdatePoliciesFails
  PROVE  ObjectsInv'
<1> USE DEF ObjectsInv
<1>1. ObjectsTypeOK /\ polled \in Seq(Seq(ObjectItems)) /\ mishaps \in Nat /\ forgotten \subseteq Objects
  BY DEF ObjectsTypeOK
<1>2. /\ css' = css /\ objectWork' = objectWork /\ posting' = posting /\ placements' = placements /\ gone' = gone
      /\ recheck' = recheck /\ refusing' = refusing /\ nodeEdits' = nodeEdits /\ missed' = missed
      /\ changed' \subseteq changed /\ again' \subseteq again /\ forgotten \subseteq forgotten'
  BY DEF PollSkipsOrg, SetCurrentPolicyOrgs, UpdatePoliciesFails
<1>3. /\ polled' \in Seq(Seq(ObjectItems)) /\ Items(polled') \subseteq Items(polled)
      /\ \A item \in Items(polled) : item \in Items(polled') \/ item.pol.obj \in forgotten'
      /\ forgotten' \subseteq Objects
  <2>1. CASE PollSkipsOrg \/ SetCurrentPolicyOrgs
    <3>1. polled' = polled
      BY <2>1 DEF PollSkipsOrg, SetCurrentPolicyOrgs
    <3>2. forgotten' \subseteq Objects
      BY <1>1, <2>1 DEF PollSkipsOrg, SetCurrentPolicyOrgs, ObjectsTypeOK
    <3> QED BY <1>1, <3>1, <3>2
  <2>2. CASE UpdatePoliciesFails
    <3>1. /\ polled # <<>> /\ polled' = Tail(polled)
          /\ forgotten' = forgotten \cup {item.pol.obj : item \in Range(Head(polled))}
      BY <2>2 DEF UpdatePoliciesFails
    <3>2. Items(polled) = Range(Head(polled)) \cup Items(polled') /\ polled' \in Seq(Seq(ObjectItems))
      BY <1>1, <3>1, ItemsTail
    <3>3. \A item \in Range(Head(polled)) : item.pol.obj \in Objects
      BY <1>1, <3>2, QueueFacts, ItemFacts, PolicyFacts
    <3> QED BY <1>1, <3>1, <3>2, <3>3
  <2> QED BY <2>1, <2>2
<1>4. /\ orgMap' \in [Objects -> ObjectPolicies \cup {NoPolicy}] /\ orgServed' \in BOOLEAN /\ mishaps' \in Nat
      /\ \A o \in Objects : /\ orgMap'[o] = orgMap[o] \/ orgMap'[o] = NoPolicy
                            /\ o \notin forgotten' => orgMap'[o] = orgMap[o] /\ (o \in changed' <=> o \in changed)
  <2>1. orgMap \in [Objects -> ObjectPolicies \cup {NoPolicy}] /\ orgServed \in BOOLEAN
    BY <1>1 DEF ObjectsTypeOK
  <2>2. CASE PollSkipsOrg
    BY <1>1, <2>1, <2>2 DEF PollSkipsOrg, Mishap
  <2>3. CASE SetCurrentPolicyOrgs
    <3>1. mishaps' \in Nat /\ orgServed' \in BOOLEAN
      BY <1>1, <2>1, <2>3 DEF SetCurrentPolicyOrgs, Mishap
    <3> QED BY <2>1, <2>3, <3>1 DEF SetCurrentPolicyOrgs
  <2>4. CASE UpdatePoliciesFails
    BY <1>1, <2>1, <2>4 DEF UpdatePoliciesFails
  <2> QED BY <2>2, <2>3, <2>4
<1>5. ObjectsTypeOK'
  <2>1. \A o \in Objects : \A pol \in {css'[o].pol, orgMap'[o]} : pol = NoPolicy \/ pol.obj = o
    BY <1>1, <1>2, <1>4 DEF ObjectsTypeOK
  <2> QED BY <1>1, <1>2, <1>3, <1>4, <2>1 DEF ObjectsTypeOK
<1>6. /\ \A o \in Objects : ReportOf(o)' => ReportOf(o)
      /\ \A o \in Objects : o \notin forgotten' => (ReportOf(o)' <=> ReportOf(o))
      /\ \A o : ChangeOf(o)' = ChangeOf(o)
      /\ \A o \in Objects : Unplaced(o) => Unplaced(o)'
  BY <1>2, <1>3, <1>4 DEF ReportOf, ChangeOf, Unplaced
<1>7. /\ \A o \in Objects : Once(o)' => Once(o) /\ o \notin forgotten'
      /\ \A o \in Objects, n \in ObjectNodes : Wanted(o, n)' => Wanted(o, n) /\ o \notin forgotten'
      /\ \A o \in Objects, n \in ObjectNodes : Due(o, n)' => Due(o, n) /\ o \notin forgotten'
  BY <1>2 DEF Once, Wanted, Due
<1>8. Unpublished'
  BY <1>2, <1>6 DEF Unpublished
<1>9. OnePolicy'
  BY <1>2, <1>3, <1>4, <1>7 DEF OnePolicy
<1>10. CachedOrFresh'
  BY <1>2, <1>3, <1>4, <1>6, <1>7 DEF CachedOrFresh
<1>11. NoLossByChange'
  BY <1>2, <1>7 DEF NoLossByChange
<1>12. NoRefusal'
  BY <1>2 DEF NoRefusal
<1>13. NotRemoved'
  BY <1>2, <1>3, <1>7 DEF NotRemoved
<1>14. Arriving'
  BY <1>2, <1>4, <1>6, <1>7 DEF Arriving, OnItsWay
<1> QED BY <1>5, <1>8, <1>9, <1>10, <1>11, <1>12, <1>13, <1>14

\* The largest of a bounded set of numbers.
LEMMA LargestIs ==
  ASSUME NEW T \in SUBSET Nat, T # {}, NEW n \in Nat, \A t \in T : t <= n
  PROVE  Max(T) \in T /\ \A t \in T : t <= Max(T)
<1> DEFINE D == {n - t : t \in T}
<1>1. D \in SUBSET Nat /\ D # {}
  <2>1. ASSUME NEW t \in T PROVE n - t \in Nat
    <3>1. t \in Nat /\ t <= n
      OBVIOUS
    <3> QED BY <3>1
  <2> QED BY <2>1
<1>2. PICK m \in D : \A u \in D : ~(<<u, m>> \in OpToRel(<, Nat))
  <2>1. IsWellFoundedOn(OpToRel(<, Nat), Nat)
    BY NatLessThanWellFounded
  <2> HIDE DEF D
  <2> QED BY <1>1, <2>1, WFMin
<1>3. \A u \in D : m <= u
  <2> TAKE u \in D
  <2> HIDE DEF D
  <2>1. <<u, m>> \in Nat \X Nat
    BY <1>1
  <2>2. ~(<<u, m>> \in {ss \in Nat \X Nat : ss[1] < ss[2]})
    BY <1>2 DEF OpToRel
  <2> QED BY <2>1, <2>2, <1>1
<1>4. PICK s \in T : m = n - s
  OBVIOUS
<1>5. \A t \in T : t <= s
  <2> TAKE t \in T
  <2>1. n - t \in D
    OBVIOUS
  <2>2. t \in Nat /\ s \in Nat
    OBVIOUS
  <2>3. n - s <= n - t
    BY <1>3, <1>4, <2>1
  <2> HIDE DEF D
  <2> QED BY <2>2, <2>3
<1> QED BY <1>4, <1>5 DEF Max

\* What a change tells the workers, and what it leaves in the cache.
LEMMA BatchFacts ==
  ASSUME NEW cached \in [Objects -> ObjectPolicies \cup {NoPolicy}],
         NEW b \in Seq(ObjectItems), NEW i \in DOMAIN b
  PROVE  /\ policyReplaced(cached, b, i) \in ObjectPolicies \cup {NoPolicy}
         /\ cached[b[i].pol.obj] = b[i].pol => policyReplaced(cached, b, i) = b[i].pol
<1> DEFINE R == {j \in 1..i : /\ cached[b[j].pol.obj] # NoPolicy
                              /\ Shares(cached, b[j]) \/ ~foundService(cached, b, j)}
<1>1. i \in Nat \ {0} /\ \A j \in 1..i : j \in DOMAIN b /\ b[j] \in ObjectItems
  OBVIOUS
<1>2. \A j \in 1..i : b[j].pol.obj \in Objects /\ b[j].pol # NoPolicy /\ b[j].pol.services # {}
  BY <1>1, ItemFacts, PolicyFacts
<1>3. R \subseteq 1..i
  OBVIOUS
<1>4. policyReplaced(cached, b, i) = IF R = {} THEN NoPolicy ELSE cached[b[Max(R)].pol.obj]
  BY DEF policyReplaced
<1>5. cached[b[i].pol.obj] = b[i].pol => i \in R
  BY <1>1, <1>2 DEF Shares
<1> HIDE DEF R
<1>6. R # {} => Max(R) \in R /\ \A j \in R : j <= Max(R)
  <2>1. R \in SUBSET Nat /\ i \in Nat /\ \A j \in R : j <= i
    BY <1>1, <1>3
  <2> QED BY <2>1, LargestIs
<1>7. R # {} => cached[b[Max(R)].pol.obj] \in ObjectPolicies \cup {NoPolicy}
  BY <1>2, <1>3, <1>6
<1>8. i \in R => Max(R) = i
  <2> SUFFICES ASSUME i \in R PROVE Max(R) = i
    OBVIOUS
  <2>1. Max(R) \in 1..i /\ i <= Max(R)
    BY <1>3, <1>6
  <2> QED BY <1>1, <2>1
<1>9. policyReplaced(cached, b, i) \in ObjectPolicies \cup {NoPolicy}
  BY <1>4, <1>7
<1>10. cached[b[i].pol.obj] = b[i].pol => policyReplaced(cached, b, i) = b[i].pol
  BY <1>4, <1>5, <1>8
<1> QED BY <1>9, <1>10

LEMMA EventFacts ==
  ASSUME NEW cached \in [Objects -> ObjectPolicies \cup {NoPolicy}], NEW b \in Seq(ObjectItems)
  PROVE  /\ changeEvents(cached, b) \in Seq(ObjectWork)
         /\ \A e \in Range(changeEvents(cached, b)) :
              e.kind = "object" /\ \E item \in Range(b) :
                 /\ e.new = item.pol /\ e.dests = item.dests
                 /\ cached[item.pol.obj] = item.pol => e.old = item.pol
         /\ \A item \in Range(b) : \E e \in Range(changeEvents(cached, b)) : e.new = item.pol
<1> DEFINE ev == changeEvents(cached, b)
           old(i) == policyReplaced(cached, b, i)
           event(i) == [kind |-> "object", new |-> b[i].pol, dests |-> b[i].dests, old |-> old(i)]
<1>1. DOMAIN b = 1..Len(b) /\ Len(b) \in Nat /\ \A i \in DOMAIN b : b[i] \in ObjectItems
  OBVIOUS
<1>2. \A i \in DOMAIN b : /\ old(i) \in ObjectPolicies \cup {NoPolicy}
                          /\ cached[b[i].pol.obj] = b[i].pol => old(i) = b[i].pol
  BY BatchFacts
<1>3. ev = [i \in DOMAIN b |-> event(i)]
  BY DEF changeEvents
<1> HIDE DEF ev, old
<1>4. \A i \in DOMAIN b : b[i].pol \in ObjectPolicies /\ b[i].dests \subseteq ObjectNodes
  BY <1>1, ItemFacts
<1>5. \A i \in DOMAIN b : event(i) \in ObjectWork
  BY <1>2, <1>4 DEF ObjectWork
<1>6. \A i \in DOMAIN b : /\ event(i).kind = "object" /\ event(i).new = b[i].pol /\ event(i).dests = b[i].dests
                          /\ event(i).old = old(i)
  OBVIOUS
<1> HIDE DEF event
<1>7. ev \in Seq(ObjectWork) /\ DOMAIN ev = DOMAIN b /\ \A i \in DOMAIN b : ev[i] = event(i)
  BY <1>1, <1>3, <1>5
<1>8. \A e \in Range(ev) : \E i \in DOMAIN b : e = event(i) /\ b[i] \in Range(b)
  BY <1>7 DEF Range
<1>9. \A item \in Range(b) : \E i \in DOMAIN b : item = b[i] /\ event(i) \in Range(ev)
  BY <1>7 DEF Range
<1>10. \A e \in Range(ev) : e.kind = "object" /\ \E item \in Range(b) :
                 /\ e.new = item.pol /\ e.dests = item.dests
                 /\ cached[item.pol.obj] = item.pol => e.old = item.pol
  BY <1>2, <1>6, <1>8
<1>11. \A item \in Range(b) : \E e \in Range(ev) : e.new = item.pol
  BY <1>6, <1>9
<1> QED BY <1>7, <1>10, <1>11 DEF ev

LEMMA CacheFacts ==
  ASSUME NEW cached \in [Objects -> ObjectPolicies \cup {NoPolicy}], NEW b \in Seq(ObjectItems),
         \A o \in Objects : cached[o] = NoPolicy \/ cached[o].obj = o
  PROVE  LET m == UpdateObjectPolicies(cached, b) IN
         /\ m \in [Objects -> ObjectPolicies \cup {NoPolicy}]
         /\ \A o \in Objects : /\ m[o] = NoPolicy \/ m[o].obj = o
                               /\ \/ m[o] = cached[o] /\ \A item \in Range(b) : item.pol.obj # o
                                  \/ \E item \in Range(b) : item.pol.obj = o /\ m[o] = item.pol
<1> DEFINE m == UpdateObjectPolicies(cached, b)
           at(o) == {i \in DOMAIN b : b[i].pol.obj = o}
           val(o) == IF at(o) = {} THEN cached[o] ELSE b[CHOOSE i \in at(o) : TRUE].pol
<1>1. m = [o \in Objects |-> val(o)]
  BY DEF UpdateObjectPolicies
<1>2. \A i \in DOMAIN b : b[i] \in ObjectItems /\ b[i] \in Range(b) /\ b[i].pol \in ObjectPolicies
  BY ItemFacts DEF Range
<1>3. ASSUME NEW o \in Objects
      PROVE  \/ val(o) = cached[o] /\ \A item \in Range(b) : item.pol.obj # o
             \/ \E item \in Range(b) : item.pol.obj = o /\ val(o) = item.pol /\ item.pol \in ObjectPolicies
  <2>1. CASE at(o) = {}
    <3>1. val(o) = cached[o]
      BY <2>1
    <3>2. \A i \in DOMAIN b : b[i].pol.obj # o
      BY <2>1
    <3>3. \A item \in Range(b) : \E i \in DOMAIN b : item = b[i]
      BY DEF Range
    <3> HIDE DEF val, at
    <3> QED BY <3>1, <3>2, <3>3
  <2>2. CASE at(o) # {}
    <3> DEFINE c == CHOOSE i \in at(o) : TRUE
    <3>1. c \in at(o)
      BY <2>2
    <3>2. val(o) = b[c].pol
      BY <2>2
    <3> HIDE DEF c
    <3> QED BY <1>2, <3>1, <3>2
  <2> QED BY <2>1, <2>2
<1> HIDE DEF val, m, at
<1>4. \A o \in Objects : m[o] = val(o) /\ m[o] \in ObjectPolicies \cup {NoPolicy}
  BY <1>1, <1>3
<1>5. m \in [Objects -> ObjectPolicies \cup {NoPolicy}]
  BY <1>1, <1>4
<1> QED BY <1>3, <1>4, <1>5 DEF m

LEMMA HandleObjectPoliciesChangeInv ==
  ASSUME ObjectsInv, HandleObjectPoliciesChange
  PROVE  ObjectsInv'
<1> USE DEF ObjectsInv
<1> DEFINE b == Head(polled)
<1>1. ObjectsTypeOK /\ polled \in Seq(Seq(ObjectItems)) /\ objectWork \in Seq(ObjectWork)
  BY DEF ObjectsTypeOK
<1>2. PICK cached \in {orgMap, Collected(orgMap)} :
        orgMap' = UpdateObjectPolicies(cached, b) /\ objectWork' = objectWork \o changeEvents(cached, b)
  BY DEF HandleObjectPoliciesChange
<1> DEFINE ev == changeEvents(cached, b)
<1>3. /\ polled # <<>> /\ polled' = Tail(polled)
      /\ css' = css /\ changed' = changed /\ again' = again /\ posting' = posting
      /\ placements' = placements /\ gone' = gone /\ forgotten' = forgotten /\ orgServed' = orgServed /\ mishaps' = mishaps
      /\ recheck' = recheck /\ refusing' = refusing /\ nodeEdits' = nodeEdits /\ missed' = missed
  BY DEF HandleObjectPoliciesChange
<1>4. /\ cached \in [Objects -> ObjectPolicies \cup {NoPolicy}]
      /\ \A o \in Objects : cached[o] = orgMap[o] \/ (o \in gone /\ cached[o] = NoPolicy)
  <2>1. orgMap \in [Objects -> ObjectPolicies \cup {NoPolicy}]
    BY <1>1 DEF ObjectsTypeOK
  <2> QED BY <2>1 DEF Collected
<1>5. \A o \in Objects : cached[o] = NoPolicy \/ cached[o].obj = o
  BY <1>1, <1>4, CssFacts
<1>6. b \in Seq(ObjectItems) /\ polled' \in Seq(Seq(ObjectItems)) /\ Items(polled) = Range(b) \cup Items(polled')
  BY <1>1, <1>3, ItemsTail
<1> HIDE DEF b
<1>7. /\ ev \in Seq(ObjectWork)
      /\ \A e \in Range(ev) : e.kind = "object" /\ \E item \in Range(b) :
                 /\ e.new = item.pol /\ e.dests = item.dests
                 /\ cached[item.pol.obj] = item.pol => e.old = item.pol
      /\ \A item \in Range(b) : \E e \in Range(ev) : e.new = item.pol
  BY <1>4, <1>6, EventFacts
<1>8. /\ orgMap' \in [Objects -> ObjectPolicies \cup {NoPolicy}]
      /\ \A o \in Objects : /\ orgMap'[o] = NoPolicy \/ orgMap'[o].obj = o
                            /\ \/ orgMap'[o] = cached[o] /\ \A item \in Range(b) : item.pol.obj # o
                               \/ \E item \in Range(b) : item.pol.obj = o /\ orgMap'[o] = item.pol
  BY <1>2, <1>4, <1>5, <1>6, CacheFacts
<1> HIDE DEF ev
<1>9. objectWork' \in Seq(ObjectWork) /\ Changes(objectWork') = Changes(objectWork) \cup Range(ev)
  BY <1>1, <1>2, <1>7, ChangesJoin DEF ev
<1>10. ObjectsTypeOK'
  BY <1>1, <1>3, <1>6, <1>8, <1>9 DEF ObjectsTypeOK
<1>11. \A item \in Range(b) : item.pol # NoPolicy
  BY <1>1, <1>6, QueueFacts, ItemFacts, PolicyFacts
<1>12. \A o \in Objects : /\ ReportOf(o)' => ReportOf(o)
                          /\ ChangeOf(o)' => ChangeOf(o) \/ ReportOf(o)
                          /\ ChangeOf(o) => ChangeOf(o)'
                          /\ ReportOf(o) => ReportOf(o)' \/ ChangeOf(o)'
  BY <1>6, <1>7, <1>9 DEF ReportOf, ChangeOf
<1>13. \A o \in Objects : /\ Once(o)' = Once(o) /\ (Once(o) => cached[o] = orgMap[o])
                          /\ \A n \in ObjectNodes : Wanted(o, n)' = Wanted(o, n) /\ Due(o, n)' = Due(o, n)
  BY <1>3, <1>4 DEF Once, Wanted, Due
<1>14. Unpublished'
  <2> SUFFICES ASSUME NEW o \in Objects, css[o].pol = NoPolicy
               PROVE  Unplaced(o)' /\ ~ReportOf(o)' /\ o \notin changed' \cup again'
    BY <1>3 DEF Unpublished
  <2>1. Unplaced(o) /\ ~ReportOf(o) /\ o \notin changed \cup again
    BY DEF Unpublished
  <2>2. orgMap'[o] = NoPolicy
    BY <1>4, <1>6, <1>8, <2>1 DEF Unplaced, ReportOf
  <2> QED BY <1>3, <1>12, <2>1, <2>2 DEF Unplaced
<1>15. OnePolicy'
  <2> SUFFICES ASSUME NEW o \in Objects, Once(o)
               PROVE  /\ orgMap'[o] \in {NoPolicy, css[o].pol}
                      /\ \A item \in Items(polled') : item.pol.obj = o => item.pol = css[o].pol
                      /\ \A e \in Changes(objectWork') : e.new.obj = o => e.new = css[o].pol
    BY <1>3, <1>13 DEF OnePolicy
  <2>1. /\ orgMap[o] \in {NoPolicy, css[o].pol}
        /\ \A item \in Items(polled) : item.pol.obj = o => item.pol = css[o].pol
        /\ \A e \in Changes(objectWork) : e.new.obj = o => e.new = css[o].pol
    BY DEF OnePolicy
  <2>2. orgMap'[o] \in {NoPolicy, css[o].pol}
    BY <1>6, <1>8, <1>13, <2>1
  <2>3. ASSUME NEW e \in Range(ev), e.new.obj = o PROVE e.new = css[o].pol
    <3>1. PICK item \in Range(b) : e.new = item.pol
      BY <1>7
    <3> QED BY <1>6, <2>1, <2>3, <3>1
  <2> QED BY <1>6, <1>9, <2>1, <2>2, <2>3
<1>16. CachedOrFresh'
  <2> SUFFICES ASSUME NEW o \in Objects, Once(o), orgMap'[o] = NoPolicy
               PROVE  /\ Unplaced(o)' /\ (o \in changed' \/ ReportOf(o)')
                      /\ \A item \in Items(polled') : item.pol.obj = o => item.dests = {}
    BY <1>13 DEF CachedOrFresh
  <2>1. orgMap[o] = NoPolicy /\ \A item \in Range(b) : item.pol.obj # o
    BY <1>8, <1>11, <1>13
  <2>2. /\ Unplaced(o) /\ (o \in changed \/ ReportOf(o))
        /\ \A item \in Items(polled) : item.pol.obj = o => item.dests = {}
    BY <2>1 DEF CachedOrFresh
  <2>3. ~ChangeOf(o)' /\ (ReportOf(o) => ReportOf(o)')
    BY <1>6, <1>7, <1>9, <2>1, <2>2 DEF Unplaced, ChangeOf, ReportOf
  <2>4. Unplaced(o)'
    BY <1>3, <2>2, <2>3 DEF Unplaced
  <2> QED BY <1>3, <1>6, <2>2, <2>3, <2>4
<1>17. NoLossByChange'
  <2> SUFFICES ASSUME NEW o \in Objects, Once(o), NEW e \in Range(ev), e.new.obj = o
               PROVE  e.dests = {} \/ e.old.services = e.new.services
    BY <1>9, <1>13 DEF NoLossByChange
  <2>1. PICK item \in Range(b) : /\ e.new = item.pol /\ e.dests = item.dests
                                 /\ cached[item.pol.obj] = item.pol => e.old = item.pol
    BY <1>7
  <2>2. item.pol = css[o].pol /\ orgMap[o] \in {NoPolicy, css[o].pol}
    BY <1>6, <2>1 DEF OnePolicy
  <2>3. orgMap[o] = NoPolicy => item.dests = {}
    BY <1>6, <2>1 DEF CachedOrFresh
  <2> QED BY <1>13, <2>1, <2>2, <2>3
<1>18. NoRefusal'
  BY <1>3 DEF NoRefusal
<1>19. NotRemoved'
  <2> SUFFICES ASSUME NEW o \in Objects, NEW n \in ObjectNodes, Wanted(o, n), NEW e \in Range(ev),
                      e.new.obj = o, n \in e.dests
               PROVE  n \in css[o].dests
    BY <1>3, <1>6, <1>9, <1>13 DEF NotRemoved
  <2>1. PICK item \in Range(b) : e.new = item.pol /\ e.dests = item.dests
    BY <1>7
  <2>2. item \in Items(polled) /\ item.pol.obj = o /\ n \in item.dests
    BY <1>6, <2>1
  <2> QED BY <2>2 DEF NotRemoved
<1>20. Arriving'
  BY <1>3, <1>12, <1>13 DEF Arriving, OnItsWay
<1> QED BY <1>10, <1>14, <1>15, <1>16, <1>17, <1>18, <1>19, <1>20

-----------------------------------------------------------------------------
\* What the evaluations of the workers find.
DestinationLists == [add : SUBSET (Objects \X ObjectNodes), delete : SUBSET (Objects \X ObjectNodes)]

LEMMA NothingFacts == Nothing \in DestinationLists /\ Nothing.add = {} /\ Nothing.delete = {}
BY DEF Nothing, DestinationLists

LEMMA ListsFacts ==
  ASSUME NEW S, \A x \in S : x \in DestinationLists
  PROVE  /\ Lists(S) \in DestinationLists
         /\ \A y : y \in Lists(S).add <=> \E x \in S : y \in x.add
         /\ \A y : y \in Lists(S).delete <=> \E x \in S : y \in x.delete
<1> DEFINE A == UNION {x.add : x \in S}
           D == UNION {x.delete : x \in S}
<1>1. Lists(S) = [add |-> A, delete |-> D]
  BY DEF Lists
<1>2. \A y : (y \in A <=> \E x \in S : y \in x.add) /\ (y \in D <=> \E x \in S : y \in x.delete)
  OBVIOUS
<1>3. \A x \in S : x.add \subseteq Objects \X ObjectNodes /\ x.delete \subseteq Objects \X ObjectNodes
  BY DEF DestinationLists
<1> HIDE DEF A, D
<1>4. A \subseteq Objects \X ObjectNodes /\ D \subseteq Objects \X ObjectNodes
  BY <1>2, <1>3
<1> QED BY <1>1, <1>2, <1>4 DEF DestinationLists

LEMMA AssignFacts ==
  ASSUME NEW pol \in ObjectPolicies, NEW n \in ObjectNodes, NEW dests
  PROVE  LET A == AssignObjectToNodes(pol, n, dests) IN
         /\ A \in DestinationLists
         /\ \A y \in A.add \cup A.delete : y = <<pol.obj, n>>
         /\ Admits(pol, n) => A.delete = {}
         /\ Admits(pol, n) /\ pol.obj \notin gone => n \in dests \/ <<pol.obj, n>> \in A.add
<1> DEFINE A == AssignObjectToNodes(pol, n, dests)
<1>1. pol.obj \in Objects
  BY PolicyFacts
<1>2. \/ A = Nothing /\ (pol.obj \in gone \/ ~Admits(pol, n) \/ n \in dests)
      \/ A = [add |-> {}, delete |-> {<<pol.obj, n>>}] /\ ~Admits(pol, n)
      \/ A = [add |-> {<<pol.obj, n>>}, delete |-> {}]
  BY DEF AssignObjectToNodes
<1> HIDE DEF A
<1>3. CASE A = Nothing /\ (pol.obj \in gone \/ ~Admits(pol, n) \/ n \in dests)
  BY <1>3, NothingFacts DEF A
<1>4. CASE A = [add |-> {}, delete |-> {<<pol.obj, n>>}] /\ ~Admits(pol, n)
  <2>1. A \in DestinationLists /\ A.add = {} /\ A.delete = {<<pol.obj, n>>}
    BY <1>1, <1>4 DEF DestinationLists
  <2> QED BY <1>4, <2>1 DEF A
<1>5. CASE A = [add |-> {<<pol.obj, n>>}, delete |-> {}]
  <2>1. A \in DestinationLists /\ A.delete = {} /\ A.add = {<<pol.obj, n>>}
    BY <1>1, <1>5 DEF DestinationLists
  <2> QED BY <2>1 DEF A
<1> QED BY <1>2, <1>3, <1>4, <1>5

LEMMA WantedAdmitted ==
  ASSUME ObjectsInv, NEW o \in Objects, NEW n \in ObjectNodes, Wanted(o, n)
  PROVE  /\ Admits(css[o].pol, n) /\ css[o].pol.obj = o /\ o \notin gone /\ Once(o)
         /\ css[o].pol \in ObjectPolicies
<1>1. Once(o) /\ ObjectsTypeOK /\ NoRefusal
  BY DEF Wanted, ObjectsInv
<1>2. css[o].pol.obj = o /\ css[o].pol \in ObjectPolicies
  BY <1>1, OnceFacts
<1> QED BY <1>1, <1>2 DEF Wanted, Admits, NoRefusal, Once

LEMMA AgreementFacts ==
  ASSUME ObjectsInv, NEW n \in ObjectNodes, NEW ss \in SUBSET ObjectServices, NEW unread
  PROVE  LET L == AgreementHandleMMSObjectPolicy(n, ss, unread) IN
         /\ L \in DestinationLists
         /\ \A o \in Objects : \A m \in ObjectNodes :
              /\ <<o, m>> \in L.add \cup L.delete => orgMap[o] # NoPolicy
              /\ Wanted(o, m) => <<o, m>> \notin L.delete
         /\ \A o \in Objects : Wanted(o, n) /\ orgMap[o] # NoPolicy /\ css[o].pol.services \cap ss # {}
              => n \in css[o].dests \/ <<o, n>> \in L.add
<1> DEFINE L == AgreementHandleMMSObjectPolicy(n, ss, unread)
           ds(o) == IF o \in unread THEN {} ELSE css[o].dests
           A(o) == AssignObjectToNodes(orgMap[o], n, ds(o))
           f(o) == IF orgMap[o].services \cap ss # {} THEN A(o) ELSE Nothing
           S == {f(o) : o \in Objects}
<1>1. L = Lists(S)
  BY DEF AgreementHandleMMSObjectPolicy
<1>2. ObjectsTypeOK /\ OnePolicy
  BY DEF ObjectsInv
<1>3. \A o \in Objects : orgMap[o] # NoPolicy => orgMap[o] \in ObjectPolicies /\ orgMap[o].obj = o
  BY <1>2, CssFacts
<1>4. \A o \in Objects : orgMap[o] # NoPolicy =>
        /\ A(o) \in DestinationLists
        /\ \A y \in A(o).add \cup A(o).delete : y = <<o, n>>
        /\ Admits(orgMap[o], n) => A(o).delete = {}
        /\ Admits(orgMap[o], n) /\ o \notin gone => n \in ds(o) \/ <<o, n>> \in A(o).add
  <2> TAKE o \in Objects
  <2> HAVE orgMap[o] # NoPolicy
  <2>1. orgMap[o] \in ObjectPolicies /\ orgMap[o].obj = o
    BY <1>3
  <2> HIDE DEF ds
  <2> QED BY <2>1, AssignFacts
<1>5. \A o \in Objects : n \in ds(o) => n \in css[o].dests
  OBVIOUS
<1> HIDE DEF A, ds
<1>6. \A o \in Objects : \/ f(o) = A(o) /\ orgMap[o].services \cap ss # {}
                         \/ f(o) = Nothing /\ orgMap[o].services \cap ss = {}
  OBVIOUS
<1>7. \A x : x \in S <=> \E o \in Objects : x = f(o)
  OBVIOUS
<1> HIDE DEF f, S, L
<1>8. \A o \in Objects : orgMap[o].services \cap ss # {} => orgMap[o] # NoPolicy
  BY PolicyFacts
<1>9. \A o \in Objects : /\ f(o) \in DestinationLists
                         /\ \A y \in f(o).add \cup f(o).delete : y = <<o, n>> /\ orgMap[o] # NoPolicy /\ f(o) = A(o)
  BY <1>4, <1>6, <1>8, NothingFacts
<1>10. /\ L \in DestinationLists
       /\ \A y : y \in L.add <=> \E o \in Objects : y \in f(o).add
       /\ \A y : y \in L.delete <=> \E o \in Objects : y \in f(o).delete
  <2>1. \A x \in S : x \in DestinationLists
    BY <1>7, <1>9
  <2> QED BY <1>1, <1>7, <2>1, ListsFacts
<1>11. \A o \in Objects : \A m \in ObjectNodes : /\ <<o, m>> \in L.add => <<o, m>> \in f(o).add /\ m = n
                                                 /\ <<o, m>> \in L.delete => <<o, m>> \in f(o).delete /\ m = n
  BY <1>9, <1>10
<1>12. \A o \in Objects : \A m \in ObjectNodes : <<o, m>> \in L.add \cup L.delete => orgMap[o] # NoPolicy
  BY <1>9, <1>11
<1>13. \A o \in Objects : Wanted(o, n) /\ orgMap[o] # NoPolicy
         => orgMap[o] = css[o].pol /\ Admits(orgMap[o], n) /\ o \notin gone
  BY <1>2, WantedAdmitted DEF OnePolicy
<1>14. \A o \in Objects : \A m \in ObjectNodes : Wanted(o, m) => <<o, m>> \notin L.delete
  BY <1>4, <1>9, <1>11, <1>13
<1>15. ASSUME NEW o \in Objects, Wanted(o, n), orgMap[o] # NoPolicy, css[o].pol.services \cap ss # {}
       PROVE  n \in css[o].dests \/ <<o, n>> \in L.add
  <2>1. orgMap[o].services \cap ss # {} /\ f(o) = A(o)
    BY <1>6, <1>13, <1>15
  <2>2. n \in ds(o) \/ <<o, n>> \in A(o).add
    BY <1>4, <1>13, <1>15
  <2> QED BY <1>5, <1>10, <2>1, <2>2
<1> QED BY <1>10, <1>12, <1>14, <1>15 DEF L

LEMMA PostingType ==
  ASSUME ObjectsTypeOK, NEW w \in Posters, NEW L \in DestinationLists, posting' = [posting EXCEPT ![w] = L]
  PROVE  posting' \in [Posters -> DestinationLists] /\ posting'[w] = L
         /\ \A v \in Posters \ {w} : posting'[v] = posting[v]
BY DEF ObjectsTypeOK, DestinationLists

\* A worker has evaluated the cached policies for the services ss on the node n.
LEMMA AgreementHandled ==
  ASSUME ObjectsInv, NEW w \in Posters, posting[w] = Nothing, NEW n \in ObjectNodes,
         NEW ss \in SUBSET ObjectServices, NEW unread,
         posting' = [posting EXCEPT ![w] = AgreementHandleMMSObjectPolicy(n, ss, unread)],
         css' = css, changed' = changed, again' = again, polled' = polled, orgMap' = orgMap, gone' = gone, forgotten' = forgotten, orgServed' = orgServed,
         refusing' = refusing, nodeEdits' = nodeEdits, missed' = missed,
         objectWork' \in Seq(ObjectWork), Changes(objectWork') = Changes(objectWork),
         recheck' \subseteq ObjectNodes, mishaps' \in Nat,
         placements' \in [ObjectNodes \X ObjectServices -> {"none", "made", "replied", "running"}],
         \A m \in ObjectNodes, s \in ObjectServices :
           placements'[<<m, s>>] \in {"replied", "running"}
             => placements[<<m, s>>] \in {"replied", "running"} \/ (m = n /\ s \in ss)
  PROVE  ObjectsInv'
<1> USE DEF ObjectsInv
<1> DEFINE L == AgreementHandleMMSObjectPolicy(n, ss, unread)
<1>1. ObjectsTypeOK
  OBVIOUS
<1>2. /\ L \in DestinationLists
      /\ \A o \in Objects : \A m \in ObjectNodes :
           /\ <<o, m>> \in L.add \cup L.delete => orgMap[o] # NoPolicy
           /\ Wanted(o, m) => <<o, m>> \notin L.delete
      /\ \A o \in Objects : Wanted(o, n) /\ orgMap[o] # NoPolicy /\ css[o].pol.services \cap ss # {}
           => n \in css[o].dests \/ <<o, n>> \in L.add
  BY AgreementFacts
<1> HIDE DEF L
<1>3. posting' \in [Posters -> DestinationLists] /\ posting'[w] = L /\ \A v \in Posters \ {w} : posting'[v] = posting[v]
  BY <1>1, <1>2, PostingType DEF L
<1>4. ObjectsTypeOK'
  BY <1>1, <1>3 DEF ObjectsTypeOK, DestinationLists
<1>5. /\ \A o \in Objects : ReportOf(o)' = ReportOf(o) /\ ChangeOf(o)' = ChangeOf(o) /\ Once(o)' = Once(o)
      /\ \A o \in Objects : \A m \in ObjectNodes : Wanted(o, m)' = Wanted(o, m)
  BY DEF ReportOf, ChangeOf, Once, Wanted
<1>6. ASSUME NEW o \in Objects, Unplaced(o) PROVE Unplaced(o)'
  <2>1. orgMap[o] = NoPolicy
    BY <1>6 DEF Unplaced
  <2>2. \A v \in Posters, m \in ObjectNodes : <<o, m>> \notin posting'[v].add \cup posting'[v].delete
    BY <1>2, <1>3, <1>6, <2>1 DEF Unplaced
  <2> QED BY <1>5, <1>6, <2>2 DEF Unplaced
<1>7. Unpublished'
  BY <1>5, <1>6 DEF Unpublished
<1>8. OnePolicy'
  BY <1>5 DEF OnePolicy
<1>9. CachedOrFresh'
  BY <1>5, <1>6 DEF CachedOrFresh
<1>10. NoLossByChange'
  BY <1>5 DEF NoLossByChange
<1>11. NoRefusal'
  BY DEF NoRefusal
<1>12. NotRemoved'
  <2>1. \A o \in Objects, m \in ObjectNodes : Wanted(o, m) => \A v \in Posters : <<o, m>> \notin posting'[v].delete
    BY <1>2, <1>3 DEF NotRemoved
  <2> QED BY <1>5, <2>1 DEF NotRemoved
<1>13. Arriving'
  <2> SUFFICES ASSUME NEW o \in Objects, NEW m \in ObjectNodes, Due(o, m)' PROVE OnItsWay(o, m)'
    BY DEF Arriving
  <2>1. OnItsWay(o, m) => OnItsWay(o, m)'
    <3>1. \A v \in Posters : <<o, m>> \in posting[v].add => <<o, m>> \in posting'[v].add
      BY <1>3, NothingFacts
    <3> QED BY <1>5, <3>1 DEF OnItsWay
  <2>2. Wanted(o, m) /\ <<o, m>> \notin missed /\ css[o].pol.services \subseteq ObjectServices
    BY <1>1, <1>5, CssFacts, PolicyFacts DEF Due
  <2>3. PICK s \in css[o].pol.services : placements'[<<m, s>>] \in {"replied", "running"}
    BY DEF Due
  <2>4. CASE placements[<<m, s>>] \in {"replied", "running"}
    BY <2>1, <2>2, <2>4 DEF Due, Arriving
  <2>5. CASE m = n /\ s \in ss /\ orgMap[o] = NoPolicy
    <3>1. o \in changed \/ ReportOf(o)
      BY <2>2, <2>5 DEF CachedOrFresh, Wanted
    <3> QED BY <1>5, <3>1 DEF OnItsWay
  <2>6. CASE m = n /\ s \in ss /\ orgMap[o] # NoPolicy
    <3>1. n \in css[o].dests \/ <<o, n>> \in L.add
      BY <1>2, <2>2, <2>6
    <3> QED BY <1>3, <2>6, <3>1 DEF OnItsWay
  <2> QED BY <2>2, <2>3, <2>4, <2>5, <2>6
<1> QED BY <1>4, <1>7, <1>8, <1>9, <1>10, <1>11, <1>12, <1>13

LEMMA EvaluateReplyInv ==
  ASSUME ObjectsInv, NEW w \in ObjectWorkers, EvaluateReply(w)
  PROVE  ObjectsInv'
<1> DEFINE e == Head(objectWork)
<1>1. /\ ObjectsTypeOK /\ objectWork \in Seq(ObjectWork) /\ recheck \subseteq ObjectNodes /\ mishaps \in Nat
      /\ placements \in [ObjectNodes \X ObjectServices -> {"none", "made", "replied", "running"}]
  BY DEF ObjectsTypeOK, ObjectsInv
<1>2. /\ posting[w] = Nothing /\ objectWork # <<>> /\ objectWork' = Tail(objectWork) /\ e.kind = "reply"
      /\ placements' = [placements EXCEPT ![<<e.node, e.service>>] = "replied"]
      /\ UNCHANGED <<css, changed, again, polled, orgMap, gone, forgotten, orgServed, recheck, refusing, nodeEdits, missed>>
      /\ \E unread \in SUBSET Objects :
           /\ Mishap(unread)
           /\ posting' = [posting EXCEPT ![w] = AgreementHandleMMSObjectPolicy(e.node, {e.service}, unread)]
  BY DEF EvaluateReply
<1>3. PICK unread \in SUBSET Objects :
           /\ Mishap(unread)
           /\ posting' = [posting EXCEPT ![w] = AgreementHandleMMSObjectPolicy(e.node, {e.service}, unread)]
  BY <1>2
<1>4. /\ e \in ObjectWork /\ objectWork' \in Seq(ObjectWork)
      /\ \A x : x \in Changes(objectWork) <=> x \in Changes(objectWork') \/ (x = e /\ x.kind = "object")
  BY <1>1, <1>2, ChangesTail
<1>5. mishaps' \in Nat
  BY <1>1, <1>3 DEF Mishap
<1> HIDE DEF e
<1>6. Changes(objectWork') = Changes(objectWork)
  BY <1>2, <1>4
<1>7. e.node \in ObjectNodes /\ e.service \in ObjectServices
  BY <1>2, <1>4 DEF ObjectWork
<1>8. /\ placements' \in [ObjectNodes \X ObjectServices -> {"none", "made", "replied", "running"}]
      /\ \A m \in ObjectNodes, s \in ObjectServices :
           placements'[<<m, s>>] \in {"replied", "running"}
             => placements[<<m, s>>] \in {"replied", "running"} \/ (m = e.node /\ s \in {e.service})
  BY <1>1, <1>2, <1>7
<1>9. w \in Posters /\ {e.service} \in SUBSET ObjectServices
  BY <1>7 DEF Posters
<1> DEFINE n == e.node
           ss == {e.service}
<1>10. /\ posting' = [posting EXCEPT ![w] = AgreementHandleMMSObjectPolicy(n, ss, unread)]
       /\ n \in ObjectNodes /\ ss \in SUBSET ObjectServices
       /\ \A m \in ObjectNodes, s \in ObjectServices :
           placements'[<<m, s>>] \in {"replied", "running"}
             => placements[<<m, s>>] \in {"replied", "running"} \/ (m = n /\ s \in ss)
  BY <1>3, <1>7, <1>8, <1>9
<1>11. /\ css' = css /\ changed' = changed /\ again' = again /\ polled' = polled /\ orgMap' = orgMap /\ gone' = gone /\ forgotten' = forgotten /\ orgServed' = orgServed
       /\ refusing' = refusing /\ nodeEdits' = nodeEdits /\ missed' = missed /\ recheck' \subseteq ObjectNodes
  BY <1>1, <1>2
<1>12. posting[w] = Nothing /\ w \in Posters
  BY <1>2, <1>9
<1>13. /\ objectWork' \in Seq(ObjectWork)
       /\ placements' \in [ObjectNodes \X ObjectServices -> {"none", "made", "replied", "running"}]
  BY <1>4, <1>8
<1> HIDE DEF n, ss
<1> QED BY <1>5, <1>6, <1>10, <1>11, <1>12, <1>13, AgreementHandled

LEMMA HandleNodePolicyChangedInv ==
  ASSUME ObjectsInv, NEW n \in ObjectNodes, HandleNodePolicyChanged(n)
  PROVE  ObjectsInv'
<1>1. /\ ObjectsTypeOK /\ objectWork \in Seq(ObjectWork) /\ recheck \subseteq ObjectNodes /\ mishaps \in Nat
      /\ placements \in [ObjectNodes \X ObjectServices -> {"none", "made", "replied", "running"}]
  BY DEF ObjectsTypeOK, ObjectsInv
<1>2. /\ posting["commands"] = Nothing /\ recheck' = recheck \ {n}
      /\ UNCHANGED <<css, changed, again, polled, orgMap, objectWork, placements, gone, forgotten, orgServed, refusing, nodeEdits, missed>>
  BY DEF HandleNodePolicyChanged
<1>3. PICK valid \in SUBSET {s \in ObjectServices : <<n, s>> \in InProgress}, unread \in SUBSET Objects :
           /\ Mishap(unread)
           /\ posting' = [posting EXCEPT !["commands"] = AgreementHandleMMSObjectPolicy(n, valid, unread)]
  BY DEF HandleNodePolicyChanged
<1>4. mishaps' \in Nat
  BY <1>1, <1>3 DEF Mishap
<1>5. "commands" \in Posters /\ valid \in SUBSET ObjectServices /\ recheck' \subseteq ObjectNodes
  BY <1>1, <1>2 DEF Posters
<1> QED BY <1>1, <1>2, <1>3, <1>4, <1>5, AgreementHandled

LEMMA UnassignFacts ==
  ASSUME NEW e \in ObjectWork, e.kind = "object", NEW n \in ObjectNodes, NEW s
  PROVE  LET A == UnassignObjectFromNodes(e, n, s) IN
         /\ A \in DestinationLists /\ A.add = {}
         /\ \A y \in A.delete : y = <<e.new.obj, n>> /\ n \in e.dests /\ e.old.services # e.new.services
<1> DEFINE A == UnassignObjectFromNodes(e, n, s)
<1>1. e.new.obj \in Objects
  BY ChangeFacts, PolicyFacts
<1>2. \/ A = Nothing
      \/ A = [add |-> {}, delete |-> {<<e.new.obj, n>>}] /\ n \in e.dests /\ e.old.services # e.new.services
  BY DEF UnassignObjectFromNodes
<1> HIDE DEF A
<1>3. CASE A = Nothing
  BY <1>3, NothingFacts DEF A
<1>4. CASE A = [add |-> {}, delete |-> {<<e.new.obj, n>>}] /\ n \in e.dests /\ e.old.services # e.new.services
  <2>1. A \in DestinationLists /\ A.add = {} /\ A.delete = {<<e.new.obj, n>>}
    BY <1>1, <1>4 DEF DestinationLists
  <2> QED BY <1>4, <2>1 DEF A
<1> QED BY <1>2, <1>3, <1>4

LEMMA HandledChangeFacts ==
  ASSUME ObjectsInv, NEW e \in Changes(objectWork), NEW unread
  PROVE  LET L == HandleMMSObjectPolicy(e, unread) IN
         /\ L \in DestinationLists
         /\ \A o \in Objects : \A n \in ObjectNodes :
              /\ <<o, n>> \in L.add \cup L.delete => o = e.new.obj
              /\ Wanted(o, n) => <<o, n>> \notin L.delete
         /\ \A n \in ObjectNodes, s \in ObjectServices :
              Wanted(e.new.obj, n) /\ s \in css[e.new.obj].pol.services /\ placements[<<n, s>>] # "none" /\ <<n, s>> \notin unread
              => n \in css[e.new.obj].dests \/ <<e.new.obj, n>> \in L.add
<1> DEFINE L == HandleMMSObjectPolicy(e, unread)
           A(x) == AssignObjectToNodes(e.new, x[1], e.dests)
           U(x) == UnassignObjectFromNodes(e, x[1], x[2])
           f(x) == IF x[2] \in e.new.services THEN A(x) ELSE U(x)
           X == InProgress \ unread
           S == {f(x) : x \in X}
           p == e.new.obj
<1>1. L = Lists(S)
  BY DEF HandleMMSObjectPolicy
<1>2. ObjectsTypeOK /\ OnePolicy /\ NoLossByChange /\ NotRemoved
  BY DEF ObjectsInv
<1>3. /\ e \in ObjectWork /\ e.kind = "object" /\ e.new \in ObjectPolicies /\ p \in Objects
  BY <1>2, QueueFacts, ChangeFacts, PolicyFacts
<1>4. \A x \in X : x \in ObjectNodes \X ObjectServices /\ x[1] \in ObjectNodes
  BY DEF InProgress
<1>5. \A x \in X : /\ A(x) \in DestinationLists
                   /\ \A y \in A(x).add \cup A(x).delete : y = <<p, x[1]>>
                   /\ Admits(e.new, x[1]) => A(x).delete = {}
                   /\ Admits(e.new, x[1]) /\ p \notin gone => x[1] \in e.dests \/ <<p, x[1]>> \in A(x).add
  <2> TAKE x \in X
  <2>1. x[1] \in ObjectNodes
    BY <1>4
  <2> QED BY <1>3, <2>1, AssignFacts
<1>6. \A x \in X : /\ U(x) \in DestinationLists /\ U(x).add = {}
                   /\ \A y \in U(x).delete : y = <<p, x[1]>> /\ x[1] \in e.dests /\ e.old.services # e.new.services
  <2> TAKE x \in X
  <2>1. x[1] \in ObjectNodes
    BY <1>4
  <2> QED BY <1>3, <2>1, UnassignFacts
<1>7. \A x : x \in S <=> \E z \in X : x = f(z)
  OBVIOUS
<1>8. \A x \in X : \/ f(x) = A(x) /\ x[2] \in e.new.services
                   \/ f(x) = U(x) /\ x[2] \notin e.new.services
  OBVIOUS
<1>9. \A n \in ObjectNodes, s \in ObjectServices :
        placements[<<n, s>>] # "none" /\ <<n, s>> \notin unread => <<n, s>> \in X
  BY DEF InProgress
<1> HIDE DEF A, U, f, X, S, L
<1>10. \A x \in X : f(x) \in DestinationLists /\ \A y \in f(x).add \cup f(x).delete : y = <<p, x[1]>>
  BY <1>5, <1>6, <1>8
<1>11. /\ L \in DestinationLists
       /\ \A y : y \in L.add <=> \E x \in X : y \in f(x).add
       /\ \A y : y \in L.delete <=> \E x \in X : y \in f(x).delete
  <2>1. \A x \in S : x \in DestinationLists
    BY <1>7, <1>10
  <2> QED BY <1>1, <1>7, <2>1, ListsFacts
<1>12. \A o \in Objects : \A n \in ObjectNodes : <<o, n>> \in L.add \cup L.delete => o = p
  BY <1>10, <1>11
<1>13. \A n \in ObjectNodes : Wanted(p, n) => /\ e.new = css[p].pol /\ Admits(e.new, n) /\ p \notin gone
                                              /\ e.dests = {} \/ e.old.services = e.new.services
                                              /\ n \in e.dests => n \in css[p].dests
  BY <1>2, <1>3, WantedAdmitted DEF OnePolicy, NoLossByChange, NotRemoved
<1> HIDE DEF p
<1>14. ASSUME NEW o \in Objects, NEW n \in ObjectNodes, Wanted(o, n), <<o, n>> \in L.delete PROVE FALSE
  <2>1. o = p
    BY <1>12, <1>14
  <2>2. PICK x \in X : <<o, n>> \in f(x).delete
    BY <1>11, <1>14
  <2>3. x[1] = n
    BY <1>10, <2>2
  <2>4. f(x) = A(x) \/ f(x) = U(x)
    BY <1>8
  <2>5. f(x) # A(x)
    BY <1>5, <1>13, <1>14, <2>1, <2>2, <2>3
  <2>6. n \in e.dests /\ e.old.services # e.new.services
    BY <1>6, <2>2, <2>3, <2>4, <2>5
  <2> QED BY <1>13, <1>14, <2>1, <2>6
<1>15. ASSUME NEW n \in ObjectNodes, NEW s \in ObjectServices,
              Wanted(p, n), s \in css[p].pol.services, placements[<<n, s>>] # "none", <<n, s>> \notin unread
       PROVE  n \in css[p].dests \/ <<p, n>> \in L.add
  <2> DEFINE x == <<n, s>>
  <2>1. x \in X /\ x[1] = n /\ x[2] = s
    BY <1>9, <1>15
  <2> HIDE DEF x
  <2>2. f(x) = A(x)
    BY <1>8, <1>13, <1>15, <2>1
  <2>3. n \in e.dests \/ <<p, n>> \in A(x).add
    BY <1>5, <1>13, <1>15, <2>1
  <2> QED BY <1>11, <1>13, <1>15, <2>1, <2>2, <2>3
<1> QED BY <1>11, <1>12, <1>14, <1>15 DEF L, p

LEMMA EvaluateChangeInv ==
  ASSUME ObjectsInv, NEW w \in ObjectWorkers, EvaluateChange(w)
  PROVE  ObjectsInv'
<1> USE DEF ObjectsInv
<1> DEFINE e == Head(objectWork)
           p == e.new.obj
<1>1. /\ ObjectsTypeOK /\ objectWork \in Seq(ObjectWork) /\ mishaps \in Nat /\ missed \subseteq Objects \X ObjectNodes
  BY DEF ObjectsTypeOK
<1>2. /\ posting[w] = Nothing /\ objectWork # <<>> /\ objectWork' = Tail(objectWork) /\ e.kind = "object"
      /\ css' = css /\ changed' = changed /\ again' = again /\ polled' = polled /\ orgMap' = orgMap
      /\ placements' = placements /\ gone' = gone /\ forgotten' = forgotten /\ orgServed' = orgServed /\ recheck' = recheck /\ refusing' = refusing
      /\ nodeEdits' = nodeEdits
  BY DEF EvaluateChange
<1>3. PICK unread \in SUBSET InProgress :
       /\ Mishap(unread)
       /\ posting' = [posting EXCEPT ![w] = HandleMMSObjectPolicy(e, unread)]
       /\ missed' = missed \cup {<<p, x[1]>> : x \in {y \in unread : y[2] \in e.new.services}}
  BY DEF EvaluateChange
<1>4. /\ e \in ObjectWork /\ objectWork' \in Seq(ObjectWork)
      /\ \A x : x \in Changes(objectWork) <=> x \in Changes(objectWork') \/ (x = e /\ x.kind = "object")
  BY <1>1, <1>2, ChangesTail
<1>5. mishaps' \in Nat
  BY <1>1, <1>3 DEF Mishap
<1>6. p \in Objects
  BY <1>2, <1>4, ChangeFacts, PolicyFacts
<1>7. missed' \subseteq Objects \X ObjectNodes
  BY <1>1, <1>3, <1>6 DEF InProgress
<1> DEFINE L == HandleMMSObjectPolicy(e, unread)
<1>8. e \in Changes(objectWork)
  BY <1>2, <1>4
<1> HIDE DEF e
<1>9. /\ L \in DestinationLists
      /\ \A o \in Objects : \A n \in ObjectNodes :
           /\ <<o, n>> \in L.add \cup L.delete => o = p
           /\ Wanted(o, n) => <<o, n>> \notin L.delete
      /\ \A n \in ObjectNodes, s \in ObjectServices :
           Wanted(p, n) /\ s \in css[p].pol.services /\ placements[<<n, s>>] # "none" /\ <<n, s>> \notin unread
           => n \in css[p].dests \/ <<p, n>> \in L.add
  BY <1>8, HandledChangeFacts
<1>10. ChangeOf(p) /\ (Once(p) => e.new = css[p].pol)
  BY <1>6, <1>8 DEF ChangeOf, OnePolicy
<1>11. \A n \in ObjectNodes, s \in ObjectServices :
         <<n, s>> \in unread /\ s \in e.new.services => <<p, n>> \in missed'
  BY <1>3
<1> HIDE DEF L, p
<1>12. w \in Posters
  BY DEF Posters
<1>13. posting' \in [Posters -> DestinationLists] /\ posting'[w] = L /\ \A v \in Posters \ {w} : posting'[v] = posting[v]
  BY <1>1, <1>3, <1>9, <1>12, PostingType DEF L
<1>14. ObjectsTypeOK'
  BY <1>1, <1>2, <1>4, <1>5, <1>7, <1>13 DEF ObjectsTypeOK, DestinationLists
<1>15. /\ \A x \in Changes(objectWork') : x \in Changes(objectWork)
       /\ \A o \in Objects : o # p => (ChangeOf(o) <=> ChangeOf(o)')
  BY <1>4 DEF ChangeOf, p
<1>16. /\ \A o \in Objects : ReportOf(o)' = ReportOf(o) /\ Once(o)' = Once(o)
       /\ \A o \in Objects : \A m \in ObjectNodes : Wanted(o, m)' = Wanted(o, m)
  BY <1>2 DEF ReportOf, Once, Wanted
<1>17. ASSUME NEW o \in Objects, Unplaced(o) PROVE Unplaced(o)'
  <2>1. o # p /\ ~ChangeOf(o)'
    BY <1>10, <1>15, <1>17 DEF Unplaced
  <2>2. \A v \in Posters, m \in ObjectNodes : <<o, m>> \notin posting'[v].add \cup posting'[v].delete
    BY <1>9, <1>13, <1>17, <2>1 DEF Unplaced
  <2> QED BY <1>2, <1>17, <2>1, <2>2 DEF Unplaced
<1>18. Unpublished'
  BY <1>2, <1>16, <1>17 DEF Unpublished
<1>19. OnePolicy'
  BY <1>2, <1>15, <1>16 DEF OnePolicy
<1>20. CachedOrFresh'
  BY <1>2, <1>16, <1>17 DEF CachedOrFresh
<1>21. NoLossByChange'
  BY <1>15, <1>16 DEF NoLossByChange
<1>22. NoRefusal'
  BY <1>2 DEF NoRefusal
<1>23. NotRemoved'
  <2>1. \A o \in Objects, m \in ObjectNodes : Wanted(o, m) => \A v \in Posters : <<o, m>> \notin posting'[v].delete
    BY <1>9, <1>13 DEF NotRemoved
  <2> QED BY <1>2, <1>15, <1>16, <2>1 DEF NotRemoved
<1>24. Arriving'
  <2> SUFFICES ASSUME NEW o \in Objects, NEW m \in ObjectNodes, Due(o, m)' PROVE OnItsWay(o, m)'
    BY DEF Arriving
  <2>1. Due(o, m) /\ <<o, m>> \notin missed'
    BY <1>2, <1>3, <1>16 DEF Due
  <2>2. CASE o # p
    <3>1. OnItsWay(o, m)
      BY <2>1 DEF Arriving
    <3>2. \A v \in Posters : <<o, m>> \in posting[v].add => <<o, m>> \in posting'[v].add
      BY <1>2, <1>13, NothingFacts
    <3> QED BY <1>2, <1>15, <1>16, <2>2, <3>1, <3>2 DEF OnItsWay
  <2>3. CASE o = p
    <3>1. PICK s \in css[p].pol.services : placements[<<m, s>>] \in {"replied", "running"}
      BY <2>1, <2>3 DEF Due
    <3>2. Wanted(p, m) /\ s \in ObjectServices
      BY <1>1, <1>6, <2>1, <2>3, CssFacts, PolicyFacts DEF Due
    <3>3. e.new = css[p].pol
      BY <1>10, <3>2 DEF Wanted
    <3>4. <<m, s>> \notin unread
      BY <1>11, <2>1, <2>3, <3>2, <3>3
    <3>5. m \in css[p].dests \/ <<p, m>> \in L.add
      BY <1>9, <3>1, <3>2, <3>4
    <3> QED BY <1>2, <1>12, <1>13, <2>3, <3>5 DEF OnItsWay
  <2> QED BY <2>2, <2>3
<1> QED BY <1>14, <1>18, <1>19, <1>20, <1>21, <1>22, <1>23, <1>24

LEMMA PostDestinationsInv ==
  ASSUME ObjectsInv, NEW w \in Posters, PostDestinations(w)
  PROVE  ObjectsInv'
<1> USE DEF ObjectsInv
<1> DEFINE P == posting[w]
<1>1. /\ ObjectsTypeOK /\ mishaps \in Nat /\ missed \subseteq Objects \X ObjectNodes
      /\ posting \in [Posters -> DestinationLists]
  BY DEF ObjectsTypeOK, DestinationLists
<1>2. /\ posting' = [posting EXCEPT ![w] = Nothing]
      /\ changed' = changed /\ again' = again /\ polled' = polled /\ orgMap' = orgMap
      /\ objectWork' = objectWork /\ placements' = placements /\ gone' = gone /\ forgotten' = forgotten /\ orgServed' = orgServed /\ recheck' = recheck
      /\ refusing' = refusing /\ nodeEdits' = nodeEdits
  BY DEF PostDestinations
<1>3. PICK unadded \in SUBSET Objects, undeleted \in SUBSET Objects :
       LET added == {x \in P.add : x[1] \notin unadded}
           deleted == {x \in P.delete : x[1] \notin undeleted} IN
       /\ Mishap(unadded \cup undeleted)
       /\ css' = [o \in Objects |-> IF o \in gone THEN css[o] ELSE
             [pol |-> css[o].pol, dests |-> (css[o].dests \cup {n \in ObjectNodes : <<o, n>> \in added})
                                              \ {n \in ObjectNodes : <<o, n>> \in deleted}]]
       /\ missed' = missed \cup (P.add \ added)
  BY DEF PostDestinations
<1> DEFINE added == {x \in P.add : x[1] \notin unadded}
           deleted == {x \in P.delete : x[1] \notin undeleted}
           ds(o) == (css[o].dests \cup {n \in ObjectNodes : <<o, n>> \in added})
                       \ {n \in ObjectNodes : <<o, n>> \in deleted}
<1>4. P \in DestinationLists /\ P.add \subseteq Objects \X ObjectNodes /\ P.delete \subseteq Objects \X ObjectNodes
  BY <1>1 DEF DestinationLists
<1>5. added \subseteq P.add /\ deleted \subseteq P.delete
  OBVIOUS
<1> HIDE DEF added, deleted
<1>6. /\ mishaps' \in Nat
      /\ css' = [o \in Objects |-> IF o \in gone THEN css[o] ELSE [pol |-> css[o].pol, dests |-> ds(o)]]
      /\ missed' = missed \cup (P.add \ added)
  BY <1>1, <1>3 DEF Mishap, added, deleted
<1>7. \A o \in Objects : /\ ds(o) \subseteq ObjectNodes
                         /\ \A n \in ObjectNodes : n \in ds(o) <=> (n \in css[o].dests \/ <<o, n>> \in added) /\ <<o, n>> \notin deleted
  BY <1>1, CssFacts
<1> HIDE DEF ds
<1>8. css' \in [Objects -> [pol : ObjectPolicies \cup {NoPolicy}, dests : SUBSET ObjectNodes]]
  <2>1. \A o \in Objects : /\ css[o] \in [pol : ObjectPolicies \cup {NoPolicy}, dests : SUBSET ObjectNodes]
                           /\ [pol |-> css[o].pol, dests |-> ds(o)] \in [pol : ObjectPolicies \cup {NoPolicy}, dests : SUBSET ObjectNodes]
    BY <1>1, <1>7, CssFacts DEF ObjectsTypeOK
  <2> QED BY <1>6, <2>1
<1>9. \A o \in Objects : /\ css'[o].pol = css[o].pol
                         /\ css'[o].dests = IF o \in gone THEN css[o].dests ELSE ds(o)
  BY <1>6
<1>10. /\ posting' \in [Posters -> DestinationLists] /\ posting'[w] = Nothing
       /\ \A v \in Posters \ {w} : posting'[v] = posting[v]
  BY <1>1, <1>2, NothingFacts, PostingType
<1>11. missed' \subseteq Objects \X ObjectNodes
  BY <1>1, <1>4, <1>6
<1>12. ObjectsTypeOK'
  <2>1. \A o \in Objects : \A pol \in {css'[o].pol, orgMap'[o]} : pol = NoPolicy \/ pol.obj = o
    BY <1>1, <1>2, <1>9 DEF ObjectsTypeOK
  <2> QED BY <1>1, <1>2, <1>6, <1>8, <1>10, <1>11, <2>1 DEF ObjectsTypeOK, DestinationLists
<1>13. /\ \A o \in Objects : ReportOf(o)' = ReportOf(o) /\ ChangeOf(o)' = ChangeOf(o) /\ Once(o)' = Once(o)
       /\ \A o \in Objects : \A n \in ObjectNodes : Wanted(o, n)' = Wanted(o, n)
  BY <1>2, <1>9 DEF ReportOf, ChangeOf, Once, Wanted
<1>14. ASSUME NEW o \in Objects, Unplaced(o) PROVE Unplaced(o)'
  <2>1. \A v \in Posters, n \in ObjectNodes : <<o, n>> \notin posting'[v].add \cup posting'[v].delete
    BY <1>10, <1>14, NothingFacts DEF Unplaced
  <2>2. css[o].dests = {} /\ \A n \in ObjectNodes : <<o, n>> \notin P.add
    BY <1>14 DEF Unplaced
  <2>3. css'[o].dests = {}
    BY <1>5, <1>7, <1>9, <2>2
  <2> QED BY <1>2, <1>13, <1>14, <2>1, <2>3 DEF Unplaced
<1>15. \A o \in Objects, n \in ObjectNodes : Wanted(o, n) =>
         /\ n \in css[o].dests => n \in css'[o].dests
         /\ <<o, n>> \in added => n \in css'[o].dests
  <2> TAKE o \in Objects, n \in ObjectNodes
  <2> HAVE Wanted(o, n)
  <2>1. <<o, n>> \notin P.delete /\ o \notin gone
    BY DEF NotRemoved, Wanted, Once
  <2> QED BY <1>5, <1>7, <1>9, <2>1
<1>16. Unpublished'
  BY <1>2, <1>9, <1>13, <1>14 DEF Unpublished
<1>17. OnePolicy'
  BY <1>2, <1>9, <1>13 DEF OnePolicy
<1>18. CachedOrFresh'
  BY <1>2, <1>13, <1>14 DEF CachedOrFresh
<1>19. NoLossByChange'
  BY <1>2, <1>13 DEF NoLossByChange
<1>20. NoRefusal'
  BY <1>2 DEF NoRefusal
<1>21. NotRemoved'
  <2>1. \A o \in Objects, n \in ObjectNodes : Wanted(o, n) => \A v \in Posters : <<o, n>> \notin posting'[v].delete
    BY <1>10, NothingFacts DEF NotRemoved
  <2> QED BY <1>2, <1>13, <1>15, <2>1 DEF NotRemoved
<1>22. Arriving'
  <2> SUFFICES ASSUME NEW o \in Objects, NEW n \in ObjectNodes, Due(o, n)' PROVE OnItsWay(o, n)'
    BY DEF Arriving
  <2>1. Due(o, n) /\ <<o, n>> \notin missed' /\ Wanted(o, n)
    BY <1>2, <1>6, <1>9, <1>13 DEF Due
  <2>2. OnItsWay(o, n)
    BY <2>1 DEF Arriving
  <2>3. CASE <<o, n>> \in P.add
    BY <1>6, <1>15, <2>1, <2>3 DEF OnItsWay
  <2>4. CASE <<o, n>> \notin P.add
    <3>1. \A v \in Posters : <<o, n>> \in posting[v].add => <<o, n>> \in posting'[v].add
      BY <1>10, <2>4
    <3> QED BY <1>2, <1>13, <1>15, <2>1, <2>2, <3>1 DEF OnItsWay
  <2> QED BY <2>3, <2>4
<1> QED BY <1>12, <1>16, <1>17, <1>18, <1>19, <1>20, <1>21, <1>22

-----------------------------------------------------------------------------
LEMMA ObjectsInvInit == ObjectsInit => ObjectsInv
<1> SUFFICES ASSUME ObjectsInit PROVE ObjectsInv
  OBVIOUS
<1> USE DEF ObjectsInit
<1>1. \A o \in Objects : css[o].pol = NoPolicy /\ css[o].dests = {} /\ orgMap[o] = NoPolicy
  OBVIOUS
<1>2. Items(polled) = {} /\ Changes(objectWork) = {}
  BY DEF Items, Changes, Range
<1>3. \A v \in Posters : posting[v].add = {} /\ posting[v].delete = {} /\ posting[v] \in DestinationLists
  BY NothingFacts
<1>4. \A o \in Objects : Unplaced(o) /\ ~ReportOf(o) /\ ~Once(o)
  BY <1>1, <1>2, <1>3, PolicyFacts DEF Unplaced, ReportOf, ChangeOf, Once
<1>5. ObjectsTypeOK
  <2>1. css \in [Objects -> [pol : ObjectPolicies \cup {NoPolicy}, dests : SUBSET ObjectNodes]]
    OBVIOUS
  <2>2. posting \in [Posters -> DestinationLists]
    BY NothingFacts
  <2> QED BY <1>1, <2>1, <2>2 DEF ObjectsTypeOK, DestinationLists
<1>6. NoRefusal /\ Unpublished
  BY <1>4 DEF NoRefusal, Unpublished
<1> QED BY <1>4, <1>5, <1>6 DEF ObjectsInv, OnePolicy, CachedOrFresh, NoLossByChange, NotRemoved, Wanted, Arriving, Due

LEMMA ObjectsInvStep == ObjectsInv /\ [ObjectsNext]_objectVars => ObjectsInv'
<1> SUFFICES ASSUME ObjectsInv, [ObjectsNext]_objectVars PROVE ObjectsInv'
  OBVIOUS
<1>1. ASSUME NEW o \in Objects, NEW ss \in (SUBSET ObjectServices) \ {{}}, NEW ns \in SUBSET ObjectNodes,
             PublishObject(o, ss, ns)
      PROVE  ObjectsInv'
  BY <1>1, PublishObjectInv
<1>2. ASSUME NEW n \in ObjectNodes, NEW os \in SUBSET Objects, EditNodePolicy(n, os) PROVE ObjectsInv'
  BY <1>2, EditNodePolicyInv
<1>3. ASSUME NEW n \in ObjectNodes, NEW s \in ObjectServices,
             MakePlacement(n, s) \/ StartPlacement(n, s) \/ EndPlacement(n, s)
      PROVE  ObjectsInv'
  BY <1>3, PlacementInv
<1>4. ASSUME NEW o \in Objects, DeleteObject(o) PROVE ObjectsInv'
  BY <1>4, DeleteObjectInv
<1>5. ASSUME NEW n \in ObjectNodes, HandleNodePolicyChanged(n) PROVE ObjectsInv'
  BY <1>5, HandleNodePolicyChangedInv
<1>6. CASE GetUpdatedObjects
  BY <1>6, GetUpdatedObjectsInv
<1>7. CASE HandleObjectPoliciesChange
  BY <1>7, HandleObjectPoliciesChangeInv
<1>8. ASSUME NEW w \in ObjectWorkers, EvaluateChange(w) \/ EvaluateReply(w) PROVE ObjectsInv'
  BY <1>8, EvaluateChangeInv, EvaluateReplyInv
<1>9. ASSUME NEW w \in Posters, PostDestinations(w) PROVE ObjectsInv'
  BY <1>9, PostDestinationsInv
<1>11. CASE PollSkipsOrg \/ SetCurrentPolicyOrgs \/ UpdatePoliciesFails
  BY <1>11, ForgettingInv
<1>10. CASE UNCHANGED objectVars
  <2>1. /\ css' = css /\ changed' = changed /\ again' = again /\ polled' = polled /\ orgMap' = orgMap
        /\ objectWork' = objectWork /\ posting' = posting /\ placements' = placements /\ gone' = gone /\ forgotten' = forgotten /\ orgServed' = orgServed
        /\ recheck' = recheck /\ refusing' = refusing /\ nodeEdits' = nodeEdits /\ mishaps' = mishaps
        /\ missed' = missed
    BY <1>10 DEF objectVars
  <2>2. ObjectsTypeOK' /\ NoRefusal'
    BY <2>1 DEF ObjectsInv, ObjectsTypeOK, NoRefusal
  <2> QED BY <2>1, <2>2, QuietObjects
<1> QED BY <1>1, <1>2, <1>3, <1>4, <1>5, <1>6, <1>7, <1>8, <1>9, <1>10, <1>11 DEF ObjectsNext

(* Type correctness of the sync service, the cache of policies, the queues and
   what the workers are about to post (ObjectsTypeOK). *)
THEOREM ObjectsTypeCorrect == ObjectsSpec => []ObjectsTypeOK
<1>1. ObjectsInv => ObjectsTypeOK
  BY DEF ObjectsInv
<1> QED BY <1>1, ObjectsInvInit, ObjectsInvStep, PTL DEF ObjectsSpec

(* A model object that was published once reaches every node with an agreement
   for one of its services, whichever of the poll, the update of the cache, the
   handling of the change and the replies of the nodes comes first and however
   often the poll reports the object (policy.go HandleMMSObjectPolicy,
   agreementworker.go AgreementHandleMMSObjectPolicy). *)
THEOREM PublishedObjectsArrive == ObjectsSpec => []PublishedObjectArrives
<1>1. ObjectsInv => PublishedObjectArrives
  <2> SUFFICES ASSUME ObjectsInv, ObjectsSettled, NEW o \in Objects, NEW n \in ObjectNodes,
                      css[o].pol.ver = 1, nodeEdits[n] = 0, Entitled(o, n)
               PROVE  n \in css[o].dests
    BY DEF PublishedObjectArrives
  <2>1. Due(o, n)
    BY DEF Entitled, Admits, Due, Wanted, Once
  <2>2. OnItsWay(o, n)
    BY <2>1 DEF ObjectsInv, Arriving
  <2>3. polled = <<>> /\ objectWork = <<>> /\ changed = {} /\ \A w \in Posters : posting[w] = Nothing
    BY DEF ObjectsSettled
  <2>4. ~ReportOf(o) /\ ~ChangeOf(o)
    BY <2>3 DEF ReportOf, ChangeOf, Items, Changes, Range
  <2> QED BY <2>2, <2>3, <2>4, NothingFacts DEF OnItsWay
<1> QED BY <1>1, ObjectsInvInit, ObjectsInvStep, PTL DEF ObjectsSpec
=============================================================================
