----------------------------- MODULE DailyTruth -----------------------------
(***************************************************************************)
(* What it means that the tables of an account tell the truth about one    *)
(* kWh in every interval: the assumption on the portal under which the     *)
(* consistency report of Daily must stay quiet.  It speaks of single       *)
(* tables and of how any two of them relate, never of what the archive     *)
(* makes of them.                                                          *)
(***************************************************************************)
EXTENDS Daily

\* A parsed table by the starts of its reads.
Told(parsed) ==
  [k \in {parsed[i].from : i \in DOMAIN parsed} |->
     parsed[CHOOSE i \in DOMAIN parsed : parsed[i].from = k]]

\* What any page of the account that is accepted says, unless one of its reads
\* closed in the second pass of a repeated hour.
Pages(tables, layout) ==
  {q \in {Told(parsed) : parsed \in
            {parse_daily_history(page) : page \in UNION {Sent(t, layout) : t \in tables}} \ {Refused}} :
     \A k \in DOMAIN q : ~SecondPass(tables, k)}

Registers == {"delivered", "received"}

\* Two versions of a read contradict each other in no cell.
Agree(a, b) == \A f \in Columns : a[f] = NULL \/ b[f] = NULL \/ a[f] = b[f]

\* The version has every cell that the account's reads have at all.
Whole(files, r) ==
  \A f \in Columns : r[f] # NULL \/ \A x \in files : \A k \in DOMAIN x : x[k][f] = NULL

\* The reads that fail, or hold, in some version.
Fails(files) == {k \in UNION {DOMAIN x : x \in files} :
                   \E x \in files : k \in DOMAIN x /\ Placeholder(x, k)}
Holds(files) == {k \in UNION {DOMAIN x : x \in files} :
                   \E x \in files : k \in DOMAIN x /\ ~Placeholder(x, k)}

\* The reads of a table that close a window.
Closing(x) == {k \in DOMAIN x : ~Placeholder(x, k) /\ x[k].to # NULL}

\* The failed reads of a table that never read otherwise.
Steady(files, q) ==
  {p \in DOMAIN q : Placeholder(q, p) /\
     \A x \in files : p \in DOMAIN x => \A f \in Columns : x[p][f] = q[p][f]}

\* The failed reads whose usage rolls into read k: nothing is read in between, and
\* no earlier read catches up with them.
Rolled(files, q, k) ==
  {p \in Steady(files, q) :
     /\ p < k
     /\ \A j \in Holds(files) : ~(p < j /\ j < k)
     /\ \A x \in files : \A h \in Closing(x) : h < p => x[h].to <= p}

\* The failed reads that read k catches up with.
Within(files, q, k) ==
  {p \in Steady(files, q) :
     /\ k < p /\ p < q[k].to
     /\ \A j \in Holds(files) : ~(k < j /\ j < p)}

Answered(files, q, k) == Rolled(files, q, k) \cup Within(files, q, k)

\* How long the window of read k of table q is.
Length(files, q, k) == q[k].to - Min({k} \cup Rolled(files, q, k))

\* Read k of table q: a failed read before it is its own, or another read comes in
\* between; a failed read in its window is its own; if there are any, it has all its
\* cells; its window has the length of a whole number of intervals; and in whichever
\* version its register is known, it has counted a kWh for each of them, together
\* with the failed reads.
TellsTruth(files, q, k) ==
  /\ k < q[k].to
  /\ \A p \in Fails(files) :
       /\ p < k => \/ p \in Rolled(files, q, k)
                   \/ \E j \in DOMAIN q \ Fails(files) : p < j /\ j < k
       /\ k < p /\ p < q[k].to => p \in Within(files, q, k)
  /\ Answered(files, q, k) # {} => Whole(files, q[k])
  /\ Length(files, q, k) % Grain = 0
  /\ \A x \in files : k \in DOMAIN x =>
       \A f \in Registers : Agree(x[k], q[k]) /\ x[k][f] # NULL =>
         Usage([q EXCEPT ![k] = x[k]], {k} \cup Answered(files, q, k), f)
           = Length(files, q, k) \div Grain

\* A page fills in what every version of a read says, or replaces it whole.
Updates(files, q) ==
  \A k \in DOMAIN q :
    Whole(files, q[k]) \/ \A x \in files : k \in DOMAIN x => Agree(x[k], q[k])

\* The tables a new or an old file begins with.
Beginnings == OldFiles \cup {[k \in {} |-> NULL]}

\* The pages of every account, on top of any old file.
Truthful ==
  \A tables \in Stories, layout \in Layouts, old \in Beginnings :
    LET pages == Pages(tables, layout)
        files == pages \cup
                   {q \in {old} : \A k \in DOMAIN q : ~SecondPass(tables, k)}
    IN  /\ \A q \in pages : Updates(files, q)
        /\ \A q \in files : \A k \in Closing(q) : TellsTruth(files, q, k)
=============================================================================
