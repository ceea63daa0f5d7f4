-------------------------- MODULE LaunchingProofs --------------------------
(***************************************************************************)
(* Flags: whatever the settings files and the --set flags say, no agent    *)
(* runs with flags that were written for another one.  The layering keeps  *)
(* it (FlagsFitWhenWritten), so a launch finds it (LoadedFits) and carries *)
(* it to the agent it starts (IInv).  Which layer the agent and the flags  *)
(* come from is UppermostLayerDecides, and that the order of the --set     *)
(* flags decides nothing is SetsInAnyOrder.                                *)
(*                                                                         *)
(* Ids and the registry: LInv says what a launch may rely on of what it    *)
(* read - its session is its own, a registry it read has every session     *)
(* launched alone before it began - and that a launch is alone only while  *)
(* no other is under way.  The newest transcript need not be that of the   *)
(* agent just started; that its id is recorded follows by counting, as     *)
(* every other id is taken (OneIdIsLeft).                                  *)
(***************************************************************************)
EXTENDS Launching, FiniteSetTheorems, WellFoundedInduction, TLAPS

-----------------------------------------------------------------------------
(* Layers *)

LEMMA WithoutArgs ==
  ASSUME NEW role \in Role
  PROVE  /\ [role EXCEPT !.args = None] \in Role
         /\ [role EXCEPT !.args = None].agent = role.agent
         /\ [role EXCEPT !.args = None].args = None
  BY DEF Role

LEMMA MergeRole ==
  ASSUME NEW target, NEW source, NEW kind \in Kinds
  PROVE  /\ Merge(target, source)[kind].agent =
              IF source[kind].agent # None THEN source[kind].agent ELSE target[kind].agent
         /\ Merge(target, source)[kind].args =
              IF source[kind].args # None THEN source[kind].args ELSE target[kind].args
  <1> DEFINE role == [key \in {"agent", "args"} |->
                        IF source[kind][key] # None THEN source[kind][key]
                        ELSE target[kind][key]]
  <1>1. Merge(target, source)[kind] = role
    BY DEF Merge
  <1> QED
    BY <1>1

LEMMA MergeIsTable ==
  ASSUME NEW target \in Table, NEW source \in Table
  PROVE  Merge(target, source) \in Table
  <1>1. ASSUME NEW kind \in Kinds
        PROVE  [key \in {"agent", "args"} |->
                  IF source[kind][key] # None THEN source[kind][key]
                  ELSE target[kind][key]] \in Role
    <2>1. target[kind] \in Role /\ source[kind] \in Role
      BY DEF Table
    <2> QED
      BY <2>1 DEF Role
  <1> QED
    BY <1>1 DEF Merge, Table

\* A role of a table that is laid over another: a key of the layer if it has it,
\* and of the table below if not, but for args below another agent.
LEMMA LayOverRole ==
  ASSUME NEW table \in Table, NEW layer, NEW kind \in Kinds
  PROVE  /\ layer \in Table => LayOver(table, layer) \in Table
         /\ LayOver(table, layer)[kind].agent =
              IF layer[kind].agent # None THEN layer[kind].agent ELSE table[kind].agent
         /\ LayOver(table, layer)[kind].args =
              IF layer[kind].args # None THEN layer[kind].args
              ELSE IF layer[kind].agent # None THEN None ELSE table[kind].args
  <1> DEFINE below == [k \in Kinds |->
                         IF layer[k].agent # None /\ layer[k].args = None
                         THEN [table[k] EXCEPT !.args = None] ELSE table[k]]
  <1>1. \A k \in Kinds : table[k] \in Role /\ [table[k] EXCEPT !.args = None] \in Role
    BY WithoutArgs DEF Table
  <1>2. below \in Table
    BY <1>1 DEF Table
  <1>3. LayOver(table, layer) = Merge(below, layer)
    BY DEF LayOver
  <1>4. below[kind].agent = table[kind].agent
    BY <1>1, WithoutArgs
  <1>5. layer[kind].args = None =>
          below[kind].args = IF layer[kind].agent # None THEN None ELSE table[kind].args
    BY <1>1, WithoutArgs
  <1> HIDE DEF below
  <1>6. /\ Merge(below, layer)[kind].agent =
             IF layer[kind].agent # None THEN layer[kind].agent ELSE below[kind].agent
        /\ Merge(below, layer)[kind].args =
             IF layer[kind].args # None THEN layer[kind].args ELSE below[kind].args
    BY MergeRole
  <1>7. layer \in Table => LayOver(table, layer) \in Table
    BY <1>2, <1>3, MergeIsTable
  <1>8. LayOver(table, layer)[kind].agent =
          IF layer[kind].agent # None THEN layer[kind].agent ELSE table[kind].agent
    BY <1>3, <1>4, <1>6
  <1>9. LayOver(table, layer)[kind].args =
          IF layer[kind].args # None THEN layer[kind].args
          ELSE IF layer[kind].agent # None THEN None ELSE table[kind].args
    BY <1>3, <1>5, <1>6
  <1> QED
    BY <1>7, <1>8, <1>9

LEMMA LayOverIsTable ==
  ASSUME NEW table \in Table, NEW layer \in Table
  PROVE  LayOver(table, layer) \in Table
  <1>1. "implementer" \in Kinds
    BY DEF Kinds
  <1> QED
    BY <1>1, LayOverRole

\* The step of the layering: a layer whose flags were written for the agent it
\* leads to keeps the flags fitting, also when it changes the agent and says
\* nothing of flags.
LEMMA LayOverFits ==
  ASSUME NEW table \in Table, NEW layer, FlagsFit(table), WrittenFor(table, layer)
  PROVE  FlagsFit(LayOver(table, layer))
  <1> SUFFICES ASSUME NEW kind \in Kinds
               PROVE  LaunchArgs(LayOver(table, layer), kind) =
                        LaunchAgent(LayOver(table, layer), kind)
    BY DEF FlagsFit
  <1>1. layer[kind].args \in {None, LaunchAgent(LayOver(table, layer), kind)}
    BY DEF WrittenFor
  <1>2. LaunchArgs(table, kind) = LaunchAgent(table, kind)
    BY DEF FlagsFit
  <1>3. CASE layer[kind].args # None
    BY <1>1, <1>3, LayOverRole DEF LaunchArgs
  <1>4. CASE layer[kind].args = None /\ layer[kind].agent # None
    BY <1>4, LayOverRole DEF LaunchArgs
  <1>5. CASE layer[kind].args = None /\ layer[kind].agent = None
    BY <1>2, <1>5, LayOverRole DEF LaunchArgs, LaunchAgent
  <1> QED
    BY <1>3, <1>4, <1>5

LEMMA EmptyTableIsTable == EmptyTable \in Table
  BY DEF EmptyTable, Table, Role

LEMMA EmptyTableFits == FlagsFit(EmptyTable)
  BY DEF FlagsFit, EmptyTable, LaunchArgs

\* A file that is not there changes nothing.
LEMMA NothingLaidOver ==
  ASSUME NEW table \in Table
  PROVE  LayOver(table, EmptyTable) = table
  <1>1. LayOver(table, EmptyTable) \in Table
    BY LayOverIsTable, EmptyTableIsTable
  <1>2. ASSUME NEW kind \in Kinds
        PROVE  LayOver(table, EmptyTable)[kind] = table[kind]
    <2>1. EmptyTable[kind].agent = None /\ EmptyTable[kind].args = None
      BY DEF EmptyTable
    <2>2. /\ LayOver(table, EmptyTable)[kind].agent = table[kind].agent
          /\ LayOver(table, EmptyTable)[kind].args = table[kind].args
      BY <2>1, LayOverRole
    <2>3. LayOver(table, EmptyTable)[kind] \in Role /\ table[kind] \in Role
      BY <1>1 DEF Table
    <2> QED
      BY <2>2, <2>3 DEF Role
  <1> QED
    BY <1>1, <1>2 DEF Table

\* Three files and the flags, each written for the agent it leads to: whatever
\* the layers below name, no role runs with flags written for another agent
\* (lay_over, settings.rs:229).
THEOREM FlagsFitWhenWritten ==
  ASSUME NEW global \in Table, NEW project \in Table, NEW local \in Table, NEW sets,
         WrittenFor(EmptyTable, global),
         WrittenFor(LayOver(EmptyTable, global), project),
         WrittenFor(LayOver(LayOver(EmptyTable, global), project), local),
         WrittenFor(LayOver(LayOver(LayOver(EmptyTable, global), project), local),
                    SetsLayer(sets))
  PROVE  FlagsFit(Load(global, project, local, sets))
  <1> DEFINE first == LayOver(EmptyTable, global)
             second == LayOver(first, project)
             third == LayOver(second, local)
  <1>1. first \in Table /\ FlagsFit(first)
    BY LayOverIsTable, LayOverFits, EmptyTableIsTable, EmptyTableFits
  <1>2. second \in Table /\ FlagsFit(second)
    BY <1>1, LayOverIsTable, LayOverFits
  <1>3. third \in Table /\ FlagsFit(third)
    BY <1>2, LayOverIsTable, LayOverFits
  <1>4. FlagsFit(LayOver(third, SetsLayer(sets)))
    BY <1>3, LayOverFits
  <1> QED
    BY <1>4 DEF Load

\* A layer says nothing of a role.
Silent(layer, kind) == layer[kind].agent = None /\ layer[kind].args = None

\* What a session is launched with is what the settings say last: its agent is
\* that of the uppermost layer that names one, and its flags are those of the
\* uppermost layer that says anything of the role, or the agent's own when that
\* layer names an agent alone (load_from, lay_over).
THEOREM UppermostLayerDecides ==
  ASSUME NEW global \in Table, NEW project \in Table, NEW local \in Table, NEW sets,
         NEW kind \in Kinds, NEW layers,
         layers = <<global, project, local, SetsLayer(sets)>>
  PROVE  LET table == Load(global, project, local, sets) IN
         /\ \A i \in 1..4 :
              /\ layers[i][kind].agent # None
              /\ \A j \in 1..4 : j > i => layers[j][kind].agent = None
              => LaunchAgent(table, kind) = layers[i][kind].agent
         /\ \A i \in 1..4 :
              /\ ~Silent(layers[i], kind)
              /\ \A j \in 1..4 : j > i => Silent(layers[j], kind)
              => LaunchArgs(table, kind) = IF layers[i][kind].args = None
                                           THEN LaunchAgent(table, kind)
                                           ELSE layers[i][kind].args
         /\ (\A i \in 1..4 : Silent(layers[i], kind)) =>
              LaunchAgent(table, kind) = Claude /\ LaunchArgs(table, kind) = Claude
  <1> DEFINE flags == SetsLayer(sets)
             first == LayOver(EmptyTable, global)
             second == LayOver(first, project)
             third == LayOver(second, local)
             fourth == LayOver(third, flags)
  <1>1. EmptyTable \in Table /\ first \in Table /\ second \in Table /\ third \in Table
    BY EmptyTableIsTable, LayOverIsTable
  <1>2. EmptyTable[kind].agent = None /\ EmptyTable[kind].args = None
    BY DEF EmptyTable
  <1>3. /\ layers[1] = global /\ layers[2] = project /\ layers[3] = local /\ layers[4] = flags
        /\ 1..4 = {1, 2, 3, 4}
    OBVIOUS
  <1>4. Load(global, project, local, sets) = fourth
    BY DEF Load
  <1> HIDE DEF flags, first, second, third, fourth
  <1>5. /\ first[kind].agent = IF global[kind].agent # None THEN global[kind].agent ELSE None
        /\ first[kind].args = IF global[kind].args # None THEN global[kind].args ELSE None
    BY <1>1, <1>2, LayOverRole DEF first
  <1>6. /\ second[kind].agent =
             IF project[kind].agent # None THEN project[kind].agent ELSE first[kind].agent
        /\ second[kind].args =
             IF project[kind].args # None THEN project[kind].args
             ELSE IF project[kind].agent # None THEN None ELSE first[kind].args
    BY <1>1, LayOverRole DEF second
  <1>7. /\ third[kind].agent =
             IF local[kind].agent # None THEN local[kind].agent ELSE second[kind].agent
        /\ third[kind].args =
             IF local[kind].args # None THEN local[kind].args
             ELSE IF local[kind].agent # None THEN None ELSE second[kind].args
    BY <1>1, LayOverRole DEF third
  <1>8. /\ fourth[kind].agent =
             IF flags[kind].agent # None THEN flags[kind].agent ELSE third[kind].agent
        /\ fourth[kind].args =
             IF flags[kind].args # None THEN flags[kind].args
             ELSE IF flags[kind].agent # None THEN None ELSE third[kind].args
    BY <1>1, LayOverRole DEF fourth
  <1>9. ASSUME NEW i \in 1..4, layers[i][kind].agent # None,
               \A j \in 1..4 : j > i => layers[j][kind].agent = None
        PROVE  fourth[kind].agent = layers[i][kind].agent
    <2>1. CASE i = 1
      BY <1>3, <1>5, <1>6, <1>7, <1>8, <1>9, <2>1
    <2>2. CASE i = 2
      BY <1>3, <1>6, <1>7, <1>8, <1>9, <2>2
    <2>3. CASE i = 3
      BY <1>3, <1>7, <1>8, <1>9, <2>3
    <2>4. CASE i = 4
      BY <1>3, <1>8, <1>9, <2>4
    <2> QED
      BY <1>3, <2>1, <2>2, <2>3, <2>4
  <1>10. ASSUME NEW i \in 1..4, ~Silent(layers[i], kind),
                \A j \in 1..4 : j > i => Silent(layers[j], kind)
         PROVE  fourth[kind].args = layers[i][kind].args
    <2>1. CASE i = 1
      BY <1>3, <1>5, <1>6, <1>7, <1>8, <1>10, <2>1 DEF Silent
    <2>2. CASE i = 2
      BY <1>3, <1>6, <1>7, <1>8, <1>10, <2>2 DEF Silent
    <2>3. CASE i = 3
      BY <1>3, <1>7, <1>8, <1>10, <2>3 DEF Silent
    <2>4. CASE i = 4
      BY <1>3, <1>8, <1>10, <2>4 DEF Silent
    <2> QED
      BY <1>3, <2>1, <2>2, <2>3, <2>4
  <1>11. ASSUME \A i \in 1..4 : Silent(layers[i], kind)
         PROVE  fourth[kind].agent = None /\ fourth[kind].args = None
    BY <1>3, <1>5, <1>6, <1>7, <1>8, <1>11 DEF Silent
  <1> QED
    BY <1>4, <1>9, <1>10, <1>11 DEF LaunchAgent, LaunchArgs

-----------------------------------------------------------------------------
(* The --set flags, one by one *)

\* A bounded set of numbers has a greatest one.
LEMMA GreatestExists ==
  ASSUME NEW n \in Nat, NEW T \in SUBSET (1..n), T # {}
  PROVE  \E m \in T : \A t \in T : t <= m
  <1> DEFINE U == {n - t : t \in T}
  <1>1. T \subseteq Int /\ \A t \in T : n - t \in Nat
    OBVIOUS
  <1>2. U \subseteq Nat /\ U # {}
    BY <1>1
  <1>3. IsWellFoundedOn(OpToRel(<, Nat), Nat)
    BY NatLessThanWellFounded
  <1>4. PICK u \in U : \A v \in U : ~(<<v, u>> \in OpToRel(<, Nat))
    BY <1>2, <1>3, WFMin
  <1>5. \A v \in U : ~(v < u)
    BY <1>2, <1>4 DEF OpToRel
  <1>6. PICK m \in T : u = n - m
    OBVIOUS
  <1>7. ASSUME NEW t \in T PROVE t <= m
    <2>1. n - t \in U
      OBVIOUS
    <2>2. ~(n - t < n - m)
      BY <1>5, <1>6, <2>1
    <2> QED
      BY <1>1, <2>2
  <1> QED
    BY <1>7

Keys == {"agent", "args"}

\* What the layer is after each of the first n sets.
Merges(f, sets, n) ==
  f[0] = EmptyTable /\ \A m \in 1..n : f[m] = Merge(f[m - 1], sets[m].table)

LEMMA MergesGrow ==
  ASSUME NEW sets, NEW n \in Nat \ {0}, NEW f, Merges(f, sets, n - 1)
  PROVE  \E g : g = [m \in 0..n |-> g[m]] /\ Merges(g, sets, n)
  <1> DEFINE g == [m \in 0..n |-> IF m = n THEN Merge(f[n - 1], sets[n].table) ELSE f[m]]
  <1>1. n - 1 \in Nat /\ 0 # n /\ 0 \in 0..n
    OBVIOUS
  <1>2. g[0] = EmptyTable
    BY <1>1 DEF Merges
  <1>3. ASSUME NEW m \in 1..n PROVE g[m] = Merge(g[m - 1], sets[m].table)
    <2>1. m \in 0..n /\ m - 1 \in 0..n /\ m - 1 # n
      OBVIOUS
    <2>2. g[m - 1] = f[m - 1]
      BY <2>1
    <2>3. CASE m = n
      BY <2>1, <2>2, <2>3
    <2>4. CASE m # n
      <3>1. m \in 1..(n - 1)
        BY <2>4
      <3>2. f[m] = Merge(f[m - 1], sets[m].table)
        BY <3>1 DEF Merges
      <3> QED
        BY <2>1, <2>2, <2>4, <3>2
    <2> QED
      BY <2>3, <2>4
  <1>4. g = [m \in 0..n |-> g[m]]
    OBVIOUS
  <1> HIDE DEF g
  <1> QED
    BY <1>2, <1>3, <1>4 DEF Merges

LEMMA MergesThere ==
  ASSUME NEW sets, NEW N \in Nat
  PROVE  \E f : f = [m \in 0..N |-> f[m]] /\ Merges(f, sets, N)
  <1> DEFINE Is(f, n) == f = [m \in 0..n |-> f[m]] /\ Merges(f, sets, n)
             Without == {n \in Nat : ~\E f : Is(f, n)}
  <1>1. ASSUME Without # {} PROVE FALSE
    <2>1. PICK n \in Without : \A m \in Without : ~(<<m, n>> \in OpToRel(<, Nat))
      BY <1>1, NatLessThanWellFounded, WFMin
    <2>2. CASE n = 0
      <3>1. Is([m \in 0..0 |-> EmptyTable], 0)
        BY DEF Merges
      <3> QED
        BY <2>2, <3>1
    <2>3. CASE n # 0
      <3>1. n - 1 \in Nat /\ n - 1 < n /\ n \in Nat \ {0}
        BY <2>3
      <3>2. n - 1 \notin Without
        BY <2>1, <3>1 DEF OpToRel
      <3>3. PICK f : Merges(f, sets, n - 1)
        BY <3>1, <3>2
      <3>4. \E g : Is(g, n)
        BY <3>1, <3>3, MergesGrow
      <3> QED
        BY <3>4
    <2> QED
      BY <2>2, <2>3
  <1> QED
    BY <1>1

LEMMA SetsLayerIsLast ==
  ASSUME NEW sets \in Seq(Set)
  PROVE  \E f : Merges(f, sets, Len(sets)) /\ SetsLayer(sets) = f[Len(sets)]
  <1> DEFINE N == Len(sets)
             Rec(f) == f = [n \in 0..N |-> IF n = 0 THEN EmptyTable
                                           ELSE Merge(f[n - 1], sets[n].table)]
             upTo == CHOOSE f : Rec(f)
  <1>1. N \in Nat
    OBVIOUS
  <1> HIDE DEF N
  <1>2. PICK f : f = [m \in 0..N |-> f[m]] /\ Merges(f, sets, N)
    BY <1>1, MergesThere
  <1>3. Rec(f)
    <2>1. \A n \in 0..N : n # 0 => n \in 1..N
      BY <1>1
    <2>2. \A n \in 0..N : f[n] = IF n = 0 THEN EmptyTable ELSE Merge(f[n - 1], sets[n].table)
      BY <1>2, <2>1 DEF Merges
    <2> QED
      BY <1>2, <2>2
  <1>4. Rec(upTo)
    BY <1>3
  <1>5. SetsLayer(sets) = upTo[N]
    BY DEF SetsLayer, N
  <1> HIDE DEF upTo
  <1>6. Merges(upTo, sets, N)
    <2>1. 0 \in 0..N /\ \A n \in 1..N : n \in 0..N /\ n # 0
      BY <1>1
    <2> QED
      BY <1>4, <2>1 DEF Merges
  <1> QED
    BY <1>5, <1>6 DEF N

\* What the first n of the sets say of a key.
Decided(layer, sets, n, kind, key) ==
  /\ (\A i \in 1..n : sets[i].table[kind][key] = None) => layer[kind][key] = None
  /\ \A i \in 1..n :
       /\ sets[i].table[kind][key] # None
       /\ \A j \in 1..n : j > i => sets[j].table[kind][key] = None
       => layer[kind][key] = sets[i].table[kind][key]

LEMMA OneMoreSet ==
  ASSUME NEW sets, NEW n \in Nat \ {0}, NEW layer, NEW kind \in Kinds, NEW key \in Keys,
         Decided(layer, sets, n - 1, kind, key)
  PROVE  Decided(Merge(layer, sets[n].table), sets, n, kind, key)
  <1> DEFINE next == Merge(layer, sets[n].table)
             said(i) == sets[i].table[kind][key]
  <1>1. next[kind][key] = IF said(n) # None THEN said(n) ELSE layer[kind][key]
    BY DEF Merge, Keys
  <1>2. \A i \in 1..n : i = n \/ i \in 1..(n - 1)
    OBVIOUS
  <1>3. \A i \in 1..(n - 1) : i \in 1..n /\ n > i
    OBVIOUS
  <1>4. n \in 1..n
    OBVIOUS
  <1>5. /\ (\A i \in 1..(n - 1) : said(i) = None) => layer[kind][key] = None
        /\ \A i \in 1..(n - 1) :
             said(i) # None /\ (\A j \in 1..(n - 1) : j > i => said(j) = None)
             => layer[kind][key] = said(i)
    BY DEF Decided
  <1> HIDE DEF next, said
  <1>6. (\A i \in 1..n : said(i) = None) => next[kind][key] = None
    BY <1>1, <1>3, <1>4, <1>5
  <1>7. ASSUME NEW i \in 1..n, said(i) # None, \A j \in 1..n : j > i => said(j) = None
        PROVE  next[kind][key] = said(i)
    <2>1. CASE i = n
      BY <1>1, <1>7, <2>1
    <2>2. CASE i # n
      BY <1>1, <1>2, <1>3, <1>4, <1>5, <1>7, <2>2
    <2> QED
      BY <2>1, <2>2
  <1> QED
    BY <1>6, <1>7 DEF Decided, next, said

LEMMA SetsDecide ==
  ASSUME NEW sets \in Seq(Set), NEW kind \in Kinds, NEW key \in Keys
  PROVE  /\ SetsLayer(sets) \in Table
         /\ Decided(SetsLayer(sets), sets, Len(sets), kind, key)
  <1> DEFINE N == Len(sets)
  <1>1. N \in Nat
    OBVIOUS
  <1>2. PICK f : Merges(f, sets, N) /\ SetsLayer(sets) = f[N]
    BY SetsLayerIsLast
  <1> HIDE DEF N
  <1> DEFINE Is(n) == f[n] \in Table /\ Decided(f[n], sets, n, kind, key)
             Not == {n \in Nat : n <= N /\ ~Is(n)}
  <1>3. ASSUME Not # {} PROVE FALSE
    <2>1. PICK n \in Not : \A m \in Not : ~(<<m, n>> \in OpToRel(<, Nat))
      BY <1>3, NatLessThanWellFounded, WFMin
    <2>2. CASE n = 0
      <3>1. EmptyTable[kind][key] = None
        BY DEF EmptyTable, Keys
      <3>2. Decided(f[0], sets, 0, kind, key)
        BY <1>2, <3>1 DEF Decided, Merges
      <3>3. f[0] \in Table
        BY <1>2, EmptyTableIsTable DEF Merges
      <3> QED
        BY <2>2, <3>2, <3>3
    <2>3. CASE n # 0
      <3>1. n - 1 \in Nat /\ n - 1 < n /\ n \in Nat \ {0} /\ n - 1 <= N /\ n \in 1..N
        BY <1>1, <2>3
      <3>2. n - 1 \notin Not
        BY <2>1, <3>1 DEF OpToRel
      <3>3. Is(n - 1)
        BY <3>1, <3>2
      <3>4. f[n] = Merge(f[n - 1], sets[n].table)
        BY <1>2, <3>1 DEF Merges
      <3>5. Decided(f[n], sets, n, kind, key)
        BY <3>1, <3>3, <3>4, OneMoreSet
      <3>6. sets[n] \in Set
        BY <3>1 DEF N
      <3>7. sets[n].table \in Table
        BY <3>6 DEF Set
      <3>8. f[n] \in Table
        BY <3>3, <3>4, <3>7, MergeIsTable
      <3> QED
        BY <3>5, <3>8
    <2> QED
      BY <2>2, <2>3
  <1> QED
    BY <1>1, <1>2, <1>3 DEF N

\* "the order of the sets does not matter, and two sets naming the same key are
\* an error" (sets_layer, settings.rs:191): --set flags no two of which say
\* different things of a key come to the same layer in whatever order, and
\* however often, they are given.
THEOREM SetsInAnyOrder ==
  ASSUME NEW sets \in Seq(Set), NEW other \in Seq(Set),
         {sets[i].table : i \in 1..Len(sets)} = {other[i].table : i \in 1..Len(other)},
         \A i, j \in 1..Len(sets), kind \in Kinds, key \in Keys :
           LET first == sets[i].table[kind][key]
               second == sets[j].table[kind][key]
           IN  first = None \/ second = None \/ first = second
  PROVE  SetsLayer(sets) = SetsLayer(other)
  <1>1. ASSUME NEW kind \in Kinds, NEW key \in Keys
        PROVE  SetsLayer(sets)[kind][key] = SetsLayer(other)[kind][key]
    <2> DEFINE said(i) == sets[i].table[kind][key]
               told(i) == other[i].table[kind][key]
    <2>1. Decided(SetsLayer(sets), sets, Len(sets), kind, key)
      BY SetsDecide
    <2>2. Decided(SetsLayer(other), other, Len(other), kind, key)
      BY SetsDecide
    <2>3. ASSUME NEW i \in 1..Len(sets)
          PROVE  \E j \in 1..Len(other) : told(j) = said(i)
      <3>1. sets[i].table \in {other[j].table : j \in 1..Len(other)}
        OBVIOUS
      <3>2. PICK j \in 1..Len(other) : sets[i].table = other[j].table
        BY <3>1
      <3> QED
        BY <3>2
    <2>4. ASSUME NEW j \in 1..Len(other)
          PROVE  \E i \in 1..Len(sets) : told(j) = said(i)
      <3>1. other[j].table \in {sets[i].table : i \in 1..Len(sets)}
        OBVIOUS
      <3>2. PICK i \in 1..Len(sets) : sets[i].table = other[j].table
        BY <3>1
      <3> QED
        BY <3>2
    <2>5. CASE \A i \in 1..Len(sets) : said(i) = None
      <3>1. \A j \in 1..Len(other) : told(j) = None
        BY <2>4, <2>5
      <3> QED
        BY <2>1, <2>2, <2>5, <3>1 DEF Decided
    <2>6. CASE \E i \in 1..Len(sets) : said(i) # None
      <3> DEFINE S == {i \in 1..Len(sets) : said(i) # None}
                 T == {j \in 1..Len(other) : told(j) # None}
      <3>10. PICK i \in 1..Len(sets) : said(i) # None
        BY <2>6
      <3>1. S # {} /\ T # {} /\ Len(sets) \in Nat /\ Len(other) \in Nat
        <4>1. PICK j \in 1..Len(other) : told(j) = said(i)
          BY <2>3
        <4>2. i \in S /\ j \in T
          BY <3>10, <4>1
        <4>3. Len(sets) \in Nat /\ Len(other) \in Nat
          OBVIOUS
        <4> QED
          BY <4>2, <4>3
      <3>2. PICK m \in S : \A t \in S : t <= m
        BY <3>1, GreatestExists
      <3>3. PICK j \in T : \A t \in T : t <= j
        BY <3>1, GreatestExists
      <3>4. \A t \in 1..Len(sets) : t > m => said(t) = None
        BY <3>2
      <3>5. \A t \in 1..Len(other) : t > j => told(t) = None
        BY <3>3
      <3>6. SetsLayer(sets)[kind][key] = said(m)
        BY <2>1, <3>2, <3>4 DEF Decided
      <3>7. SetsLayer(other)[kind][key] = told(j)
        BY <2>2, <3>3, <3>5 DEF Decided
      <3>8. PICK k \in 1..Len(sets) : told(j) = said(k)
        BY <2>4, <3>3
      <3>9. said(k) = None \/ said(m) = None \/ said(k) = said(m)
        OBVIOUS
      <3> QED
        BY <3>2, <3>3, <3>6, <3>7, <3>8, <3>9
    <2> QED
      BY <2>5, <2>6
  <1>2. "implementer" \in Kinds /\ "agent" \in Keys
    BY DEF Kinds, Keys
  <1>3. SetsLayer(sets) \in Table /\ SetsLayer(other) \in Table
    BY <1>2, SetsDecide
  <1>4. ASSUME NEW kind \in Kinds
        PROVE  SetsLayer(sets)[kind] = SetsLayer(other)[kind]
    <2>1. PICK one \in Role : one = SetsLayer(sets)[kind]
      BY <1>3 DEF Table
    <2>2. PICK two \in Role : two = SetsLayer(other)[kind]
      BY <1>3 DEF Table
    <2>3. one["agent"] = two["agent"] /\ one["args"] = two["args"]
      BY <1>1, <2>1, <2>2 DEF Keys
    <2>4. one.agent = two.agent /\ one.args = two.args
      BY <2>3
    <2> QED
      BY <2>1, <2>2, <2>4 DEF Role
  <1> QED
    BY <1>3, <1>4 DEF Table

LEMMA LayersAreTables == Layers \subseteq Table
  BY EmptyTableIsTable DEF Layers, Table, EmptyTable, Kinds

\* What a launch finds.
LEMMA LoadedFits ==
  ASSUME NEW kind \in Kinds, NEW settings \in Loaded(kind)
  PROVE  settings[1] = settings[2]
  <1>1. PICK f \in Layers \X Layers \X Sets :
          /\ WrittenFor(EmptyTable, f[1])
          /\ WrittenFor(LayOver(EmptyTable, f[1]), f[2])
          /\ WrittenFor(LayOver(LayOver(EmptyTable, f[1]), f[2]), SetsLayer(f[3]))
          /\ settings = <<LaunchAgent(Load(f[1], f[2], EmptyTable, f[3]), kind),
                          LaunchArgs(Load(f[1], f[2], EmptyTable, f[3]), kind)>>
    BY DEF Loaded
  <1>2. f[1] \in Table /\ f[2] \in Table
    BY LayersAreTables
  <1>3. FlagsFit(Load(f[1], f[2], EmptyTable, f[3]))
    <2> DEFINE second == LayOver(LayOver(EmptyTable, f[1]), f[2])
    <2>1. second \in Table
      BY <1>2, EmptyTableIsTable, LayOverIsTable
    <2>2. LayOver(second, EmptyTable) = second
      BY <2>1, NothingLaidOver
    <2>3. WrittenFor(second, EmptyTable)
      BY DEF WrittenFor, EmptyTable
    <2>4. WrittenFor(LayOver(second, EmptyTable), SetsLayer(f[3]))
      BY <1>1, <2>2
    <2> QED
      BY <1>1, <1>2, <2>3, <2>4, EmptyTableIsTable, FlagsFitWhenWritten
  <1> QED
    BY <1>1, <1>3 DEF FlagsFit

-----------------------------------------------------------------------------
(* The inductive invariant *)

LauncherKeys == {"pc", "name", "agent", "flags", "session", "id", "since", "known", "alone"}

AgentKeys == {"name", "dir", "agent", "flags", "briefed"}

\* A record with these keys whose flags are its agent's.
Fitting(record, keys) ==
  record = [key \in keys |-> record[key]] /\ record["flags"] = record["agent"]

\* A launch under way carries flags that fit, and every agent was started with
\* such.
LaunchersFit ==
  /\ launchers = [p \in Launchers |-> launchers[p]]
  /\ \A p \in Launchers : Fitting(launchers[p], LauncherKeys)

AgentsFit ==
  /\ \E S : agents \in Seq(S)
  /\ \A s \in DOMAIN agents : Fitting(agents[s], AgentKeys)

IInv == LaunchersFit /\ AgentsFit

LEMMA ReadyFits == Fitting(Ready, LauncherKeys)
  BY DEF Fitting, Ready, LauncherKeys

LEMMA InitHolds == Init => IInv
  BY ReadyFits DEF Init, IInv, LaunchersFit, AgentsFit

\* A launcher that goes back to the start.
LEMMA LeaveFits ==
  ASSUME LaunchersFit, NEW p \in Launchers, Leave(p)
  PROVE  LaunchersFit'
  BY ReadyFits DEF LaunchersFit, Leave

\* One that goes on, its flags and its agent left alone.
LEMMA GoesOnFits ==
  ASSUME LaunchersFit, NEW p \in Launchers, NEW new,
         Fitting(launchers[p], LauncherKeys) => Fitting(new, LauncherKeys),
         launchers' = [launchers EXCEPT ![p] = new]
  PROVE  LaunchersFit'
  BY DEF LaunchersFit

LEMMA BeginFits ==
  ASSUME IInv, NEW p \in Launchers, NEW name \in Names, Begin(p, name)
  PROVE  IInv'
  <1>1. Kind(name) \in Kinds
    BY DEF Kind, Kinds
  <1> DEFINE alone == {q \in Launchers : ~At(q, "ready")} = {}
  <1>2. Launches[Kind(name)] = Loaded(Kind(name))
    BY <1>1 DEF Launches
  <1>3. PICK settings \in Loaded(Kind(name)) :
          launchers' = [q \in Launchers |->
            IF q = p
            THEN [Ready EXCEPT !.pc = "open", !.name = name, !.agent = settings[1],
                    !.flags = settings[2], !.alone = alone]
            ELSE [launchers[q] EXCEPT !.alone = FALSE]]
    BY <1>2 DEF Begin
  <1>4. settings[1] = settings[2]
    BY <1>1, LoadedFits
  <1>5. Fitting([Ready EXCEPT !.pc = "open", !.name = name, !.agent = settings[1],
                   !.flags = settings[2], !.alone = alone], LauncherKeys)
    BY <1>4 DEF Fitting, Ready, LauncherKeys
  <1>6. ASSUME NEW q \in Launchers
        PROVE  Fitting([launchers[q] EXCEPT !.alone = FALSE], LauncherKeys)
    BY DEF IInv, LaunchersFit, Fitting, LauncherKeys
  <1>7. LaunchersFit'
    BY <1>3, <1>5, <1>6 DEF LaunchersFit
  <1> QED
    BY <1>7 DEF IInv, AgentsFit, Begin

\* An agent started with flags that fit.
LEMMA AppendFits ==
  ASSUME AgentsFit, NEW agent, Fitting(agent, AgentKeys), agents' = Append(agents, agent)
  PROVE  AgentsFit'
  <1>1. PICK S : agents \in Seq(S)
    BY DEF AgentsFit
  <1>2. agents \in Seq(S \cup {agent})
    BY <1>1
  <1>3. agents' \in Seq(S \cup {agent})
    BY <1>2
  <1>4. ASSUME NEW s \in DOMAIN agents'
        PROVE  Fitting(agents'[s], AgentKeys)
    <2>1. CASE s \in DOMAIN agents
      BY <1>2, <2>1 DEF AgentsFit
    <2>2. CASE s = Len(agents) + 1
      BY <1>2, <2>2
    <2> QED
      BY <1>2, <2>1, <2>2
  <1> QED
    BY <1>3, <1>4 DEF AgentsFit

LEMMA OpenFits ==
  ASSUME IInv, NEW p \in Launchers, Open(p)
  PROVE  IInv'
  <1> DEFINE l == launchers[p]
             agent == [name |-> l.name, dir |-> RunDir, agent |-> l.agent,
                       flags |-> l.flags, briefed |-> FALSE]
  <1>1. Fitting(l, LauncherKeys)
    BY DEF IInv, LaunchersFit
  <1>2. Fitting(agent, AgentKeys)
    BY <1>1 DEF Fitting, AgentKeys
  <1>3. AgentsFit'
    BY <1>2, AppendFits DEF IInv, Open
  <1>4. PICK session : launchers' = [launchers EXCEPT ![p] =
          IF runtime = "orca" /\ Assigned(l.agent)
          THEN [l EXCEPT !.pc = "read", !.session = session, !.id = session]
          ELSE [l EXCEPT !.pc = "await", !.session = session]]
    BY DEF Open
  <1>5. Fitting([l EXCEPT !.pc = "read", !.session = session, !.id = session], LauncherKeys)
    BY <1>1 DEF Fitting, LauncherKeys
  <1>6. Fitting([l EXCEPT !.pc = "await", !.session = session], LauncherKeys)
    BY <1>1 DEF Fitting, LauncherKeys
  <1>7. LaunchersFit'
    BY <1>4, <1>5, <1>6, GoesOnFits DEF IInv
  <1> QED
    BY <1>3, <1>7 DEF IInv

LEMMA EndsFit ==
  ASSUME IInv, NEW p \in Launchers, OpenFails(p) \/ GiveUp(p) \/ Kill(p)
  PROVE  IInv'
  BY LeaveFits DEF IInv, AgentsFit, OpenFails, GiveUp, Kill

LEMMA IdLearnedFits ==
  ASSUME IInv, NEW p \in Launchers, Reported(p) \/ Found(p)
  PROVE  IInv'
  <1>1. PICK pc, id : launchers' = [launchers EXCEPT ![p].pc = pc, ![p].id = id]
    BY DEF Reported, Found
  <1>2. Fitting(launchers[p], LauncherKeys)
    BY DEF IInv, LaunchersFit
  <1>3. Fitting([launchers[p] EXCEPT !.pc = pc, !.id = id], LauncherKeys)
    BY <1>2 DEF Fitting, LauncherKeys
  <1>4. launchers' = [launchers EXCEPT ![p] = [launchers[p] EXCEPT !.pc = pc, !.id = id]]
    BY <1>1
  <1>5. LaunchersFit'
    BY <1>3, <1>4, GoesOnFits DEF IInv
  <1> QED
    BY <1>5 DEF IInv, AgentsFit, Reported, Found

\* remember, and the row.
LEMMA RegistryFits ==
  ASSUME IInv, NEW p \in Launchers, ReadRegistry(p) \/ WriteTemporary(p)
  PROVE  IInv'
  <1>1. PICK pc, known : launchers' = [launchers EXCEPT ![p].pc = pc, ![p].known = known]
    BY DEF ReadRegistry, WriteTemporary
  <1>2. Fitting(launchers[p], LauncherKeys)
    BY DEF IInv, LaunchersFit
  <1>3. Fitting([launchers[p] EXCEPT !.pc = pc, !.known = known], LauncherKeys)
    BY <1>2 DEF Fitting, LauncherKeys
  <1>4. launchers' =
          [launchers EXCEPT ![p] = [launchers[p] EXCEPT !.pc = pc, !.known = known]]
    BY <1>1
  <1>5. LaunchersFit'
    BY <1>3, <1>4, GoesOnFits DEF IInv
  <1> QED
    BY <1>5 DEF IInv, AgentsFit, ReadRegistry, WriteTemporary

LEMMA RenameFits ==
  ASSUME IInv, NEW p \in Launchers, Rename(p)
  PROVE  IInv'
  <1>1. CASE launchers' = [launchers EXCEPT ![p].pc = "row"]
    <2>1. Fitting([launchers[p] EXCEPT !.pc = "row"], LauncherKeys)
      BY DEF IInv, LaunchersFit, Fitting, LauncherKeys
    <2>2. LaunchersFit'
      BY <1>1, <2>1 DEF IInv, LaunchersFit
    <2> QED
      BY <2>2 DEF IInv, AgentsFit, Rename
  <1>2. CASE Leave(p)
    BY <1>2, LeaveFits DEF IInv, AgentsFit, Rename
  <1> QED
    BY <1>1, <1>2 DEF Rename

LEMMA WriteRowFits ==
  ASSUME IInv, NEW p \in Launchers, WriteRow(p)
  PROVE  IInv'
  <1>1. Fitting([Ready EXCEPT !.pc = "brief"], LauncherKeys)
    BY DEF Fitting, Ready, LauncherKeys
  <1>2. CASE Written(p)
    <2>1. LaunchersFit'
      BY <1>1, <1>2, ReadyFits DEF IInv, LaunchersFit, Written
    <2> QED
      BY <2>1 DEF IInv, AgentsFit, WriteRow
  <1>3. CASE Leave(p)
    BY <1>3, LeaveFits DEF IInv, AgentsFit, WriteRow
  <1> QED
    BY <1>2, <1>3 DEF WriteRow

LEMMA BriefFits ==
  ASSUME IInv, NEW p \in Launchers, Brief(p)
  PROVE  IInv'
  <1>1. PICK S : agents \in Seq(S)
    BY DEF IInv, AgentsFit
  <1>2. PICK target : agents' = [s \in DOMAIN agents |->
          IF s = target THEN [agents[s] EXCEPT !.briefed = TRUE] ELSE agents[s]]
    BY DEF Brief
  <1>3. ASSUME NEW s \in DOMAIN agents
        PROVE  Fitting(agents[s], AgentKeys)
               /\ Fitting([agents[s] EXCEPT !.briefed = TRUE], AgentKeys)
    BY DEF IInv, AgentsFit, Fitting, AgentKeys
  <1>4. \A s \in DOMAIN agents' : Fitting(agents'[s], AgentKeys)
    BY <1>2, <1>3
  <1>5. \E T : agents' \in Seq(T)
    <2> DEFINE T == {agents'[s] : s \in DOMAIN agents}
    <2>1. Len(agents) \in Nat /\ DOMAIN agents = 1..Len(agents)
      BY <1>1
    <2>2. agents' = [s \in DOMAIN agents |-> agents'[s]]
      BY <1>2
    <2>3. agents' \in [DOMAIN agents -> T]
      BY <2>2
    <2>4. agents' \in Seq(T)
      BY <2>1, <2>3
    <2> QED
      BY <2>4
  <1>6. LaunchersFit'
    BY LeaveFits DEF IInv, Brief
  <1> QED
    BY <1>4, <1>5, <1>6 DEF IInv, AgentsFit

LEMMA WriteFits ==
  ASSUME IInv, NEW s, Write(s)
  PROVE  IInv'
  <1>1. ASSUME NEW p \in Launchers, NEW since
        PROVE  Fitting([launchers[p] EXCEPT !.since = since], LauncherKeys)
               /\ Fitting(launchers[p], LauncherKeys)
    BY DEF IInv, LaunchersFit, Fitting, LauncherKeys
  <1>2. LaunchersFit'
    BY <1>1 DEF IInv, LaunchersFit, Write
  <1> QED
    BY <1>2 DEF IInv, AgentsFit, Write

LEMMA ElsewhereFits ==
  ASSUME IInv, NEW dir, NEW agent, StartElsewhere(dir, agent)
  PROVE  IInv'
  <1>1. Fitting([name |-> None, dir |-> dir, agent |-> agent, flags |-> agent,
                 briefed |-> FALSE], AgentKeys)
    BY DEF Fitting, AgentKeys
  <1>2. AgentsFit'
    BY <1>1, AppendFits DEF IInv, StartElsewhere
  <1> QED
    BY <1>2 DEF IInv, LaunchersFit, StartElsewhere

LEMMA Inductive == IInv /\ [Next]_vars => IInv'
  <1> SUFFICES ASSUME IInv, [Next]_vars PROVE IInv'
    OBVIOUS
  <1>1. ASSUME NEW p \in Launchers, NEW name \in Names, Begin(p, name)
        PROVE  IInv'
    BY <1>1, BeginFits
  <1>2. ASSUME NEW p \in Launchers,
               Open(p) \/ OpenFails(p) \/ Reported(p) \/ Found(p) \/ GiveUp(p)
        PROVE  IInv'
    BY <1>2, OpenFits, EndsFit, IdLearnedFits
  <1>3. ASSUME NEW p \in Launchers,
               ReadRegistry(p) \/ WriteTemporary(p) \/ Rename(p) \/ WriteRow(p)
               \/ Brief(p) \/ Kill(p)
        PROVE  IInv'
    BY <1>3, RegistryFits, RenameFits, WriteRowFits, BriefFits, EndsFit
  <1>4. ASSUME NEW s \in DOMAIN agents, Write(s)
        PROVE  IInv'
    BY <1>4, WriteFits
  <1>5. ASSUME NEW dir \in OtherDirs, NEW agent \in AgentKinds, StartElsewhere(dir, agent)
        PROVE  IInv'
    BY <1>5, ElsewhereFits
  <1>6. CASE UNCHANGED vars
    BY <1>6 DEF vars, IInv, LaunchersFit, AgentsFit
  <1> QED
    BY <1>1, <1>2, <1>3, <1>4, <1>5, <1>6 DEF Next

-----------------------------------------------------------------------------
\* For any agents, files and flags, any number of launches at once and any
\* crash among them: whatever the layers of the settings say, an agent runs with
\* flags that were written for it (settings.rs lay_over, coordinator.rs
\* cmd_launch).
THEOREM FlagsAlwaysFit == Spec => []FlagsAreForTheAgent
  <1>1. IInv => FlagsAreForTheAgent
    BY DEF IInv, AgentsFit, Fitting, FlagsAreForTheAgent
  <1> QED
    BY InitHolds, Inductive, <1>1, PTL DEF Spec

-----------------------------------------------------------------------------
(* Ids and the registry *)

\* What a launch may find in the settings, its agent and flags.
Launchable ==
  AgentKinds \cup {settings[1] : settings \in UNION {Loaded(kind) : kind \in Kinds}}
             \cup {settings[2] : settings \in UNION {Loaded(kind) : kind \in Kinds}}

AgentType ==
  [name : Names \cup {None}, dir : {RunDir} \cup OtherDirs, agent : Launchable,
   flags : Launchable, briefed : BOOLEAN]

LauncherType ==
  [pc : {"ready", "open", "await", "read", "write", "rename", "row", "brief"},
   name : Names, agent : Launchable, flags : Launchable, session : Nat, id : Nat,
   since : SUBSET Nat, known : [Names -> Nat], alone : BOOLEAN]

RowType == [name : Names, id : Nat, live : BOOLEAN, session : Nat, alone : BOOLEAN]

Typed ==
  /\ runtime \in {"herdr", "orca"}
  /\ agents \in Seq(AgentType) /\ rows \in Seq(RowType)
  /\ registry \in [Names -> Nat] /\ temporary \in [Names -> Nat] \cup {NoFile}
  /\ launchers \in [Launchers -> LauncherType]

\* A launch whose terminal is open, and one on its way to its row.
Opened == {"await", "read", "write", "rename", "row"}
OnItsWay == {"open"} \cup Opened

Known == {"read", "write", "rename", "row"}

\* The agents the supervisor started in the run's directory.
Own == {s \in DOMAIN agents : InProject(s)}

\* What a launch relies on.
LauncherBound(l) ==
  /\ l.pc \in Opened => l.session \in Own /\ agents[l.session].name = l.name
  /\ l.pc \notin Opened => l.session = 0
  /\ l.since \subseteq DOMAIN agents
  /\ l.pc \in Known => l.id \in Own
  /\ runtime = "herdr" => l.pc \notin {"read", "write", "rename"}
  /\ runtime = "herdr" /\ l.pc = "row" => l.id = l.session
  /\ l.pc \in Opened => \A r \in DOMAIN rows :
       /\ rows[r].session # l.session
       /\ l.alone => rows[r].id # l.session
       /\ rows[r].alone => rows[r].session <= l.session

\* The registry as a launch has read it, written it and renamed it.
RegistryBound(l) ==
  /\ l.pc = "write" => \A r \in DOMAIN rows :
       rows[r].alone => rows[r].session <= l.known[rows[r].name]
  /\ l.pc = "write" => l.known[l.name] = l.session
  /\ l.pc = "rename" /\ temporary # NoFile => \A r \in DOMAIN rows :
       rows[r].alone => rows[r].session <= temporary[rows[r].name]
  /\ l.pc = "rename" /\ l.alone => temporary # NoFile /\ temporary[l.name] = l.session
  /\ l.pc = "row" /\ l.alone /\ runtime = "orca" => registry[l.name] = l.session

\* A launch that is alone has no other beside it.
AloneIsAlone ==
  \A p, q \in Launchers :
    p # q /\ launchers[p].alone /\ launchers[p].pc \in OnItsWay => launchers[q].pc = "ready"

SessionsApart ==
  \A p, q \in Launchers :
    p # q /\ launchers[p].session = launchers[q].session => launchers[p].session = 0

RowsBound ==
  /\ \A r \in DOMAIN rows :
       /\ rows[r].id \in Own
       /\ rows[r].session \in Own /\ agents[rows[r].session].name = rows[r].name
       /\ runtime = "herdr" => rows[r].id = rows[r].session
       /\ runtime = "orca" /\ rows[r].alone => rows[r].session <= registry[rows[r].name]
  /\ \A r, s \in DOMAIN rows : rows[r].id = rows[s].id => r = s

AgentsNamed == \A s \in DOMAIN agents : InProject(s) <=> agents[s].name # None

LInv ==
  /\ Typed
  /\ \A p \in Launchers : LauncherBound(launchers[p]) /\ RegistryBound(launchers[p])
  /\ AloneIsAlone /\ SessionsApart /\ RowsBound /\ AgentsNamed

-----------------------------------------------------------------------------
(* Frames: what a step leaves of the bounds of a launch it does not touch *)

\* No agent goes away or changes its name or its directory.
AgentsKeep ==
  \A s \in DOMAIN agents :
    s \in DOMAIN agents' /\ agents'[s].name = agents[s].name /\ agents'[s].dir = agents[s].dir

LEMMA OwnKeeps ==
  ASSUME AgentsKeep
  PROVE  Own \subseteq Own'
  BY DEF AgentsKeep, Own, InProject

LEMMA LauncherFrame ==
  ASSUME AgentsKeep, UNCHANGED <<runtime, rows>>, NEW l, LauncherBound(l)
  PROVE  LauncherBound(l)'
  <1>1. Own \subseteq Own'
    BY OwnKeeps
  <1>2. \A s \in Own : agents'[s].name = agents[s].name
    BY DEF AgentsKeep, Own
  <1>3. DOMAIN agents \subseteq DOMAIN agents'
    BY DEF AgentsKeep
  <1> QED
    BY <1>1, <1>2, <1>3 DEF LauncherBound

LEMMA RegistryFrame ==
  ASSUME UNCHANGED <<runtime, rows, registry, temporary>>, NEW l, RegistryBound(l)
  PROVE  RegistryBound(l)'
  BY DEF RegistryBound

LEMMA RowsFrame ==
  ASSUME AgentsKeep, UNCHANGED <<runtime, rows, registry>>, RowsBound
  PROVE  RowsBound'
  <1>1. Own \subseteq Own'
    BY OwnKeeps
  <1>2. \A s \in Own : agents'[s].name = agents[s].name
    BY DEF AgentsKeep, Own
  <1> QED
    BY <1>1, <1>2 DEF RowsBound

LEMMA ReadyBound ==
  ASSUME NEW ready \in {Ready, [Ready EXCEPT !.pc = "brief"]}
  PROVE  /\ ready \in LauncherType /\ ready.session = 0 /\ ready.pc \notin OnItsWay
         /\ (LauncherBound(ready) /\ RegistryBound(ready))'
  <1>1. Commentator \in Names /\ Claude \in Launchable /\ NoTerminals \in [Names -> Nat]
    BY SettingsAssumption DEF Names, NoTerminals, Launchable
  <1>2. Ready \in LauncherType
    BY <1>1 DEF Ready, LauncherType
  <1>3. \A l \in LauncherType : [l EXCEPT !.pc = "brief"] \in LauncherType
    BY DEF LauncherType
  <1>4. ready \in LauncherType
    BY <1>2, <1>3
  <1> QED
    BY <1>4 DEF Ready, LauncherBound, RegistryBound, OnItsWay, Opened, Known

\* One launch under way becomes new.
LEMMA Moves ==
  ASSUME LInv, NEW p \in Launchers, NEW new \in LauncherType,
         launchers[p].pc # "ready",
         launchers' = [launchers EXCEPT ![p] = new],
         runtime' = runtime, agents' \in Seq(AgentType), rows' \in Seq(RowType),
         registry' \in [Names -> Nat], temporary' \in [Names -> Nat] \cup {NoFile},
         AgentsNamed', RowsBound', LauncherBound(new)', RegistryBound(new)',
         \A q \in Launchers \ {p} :
           launchers'[q] = launchers[q]
             => LauncherBound(launchers[q])' /\ RegistryBound(launchers[q])',
         \/ new.session \in {0, launchers[p].session}
         \/ \A q \in Launchers : launchers[q].session # new.session,
         new.alone /\ new.pc \in OnItsWay =>
           launchers[p].alone /\ launchers[p].pc \in OnItsWay
  PROVE  LInv'
  <1>1. Typed'
    BY DEF LInv, Typed
  <1>2. /\ launchers'[p] = new
        /\ \A q \in Launchers : q # p => launchers'[q] = launchers[q]
    BY DEF LInv, Typed
  <1>3. \A q \in Launchers : (LauncherBound(launchers[q]) /\ RegistryBound(launchers[q]))'
    BY <1>2
  <1>4. AloneIsAlone'
    BY <1>2 DEF LInv, AloneIsAlone
  <1>5. SessionsApart'
    BY <1>2 DEF LInv, SessionsApart
  <1> QED
    BY <1>1, <1>3, <1>4, <1>5 DEF LInv

\* ... without any other noticing.
LEMMA GoesOn ==
  ASSUME LInv, NEW p \in Launchers, NEW new \in LauncherType,
         launchers[p].pc # "ready",
         launchers' = [launchers EXCEPT ![p] = new],
         AgentsKeep, agents' \in Seq(AgentType), AgentsNamed',
         UNCHANGED <<runtime, registry, temporary, rows>>,
         LauncherBound(new)', RegistryBound(new)',
         \/ new.session \in {0, launchers[p].session}
         \/ \A q \in Launchers : launchers[q].session # new.session,
         new.alone /\ new.pc \in OnItsWay =>
           launchers[p].alone /\ launchers[p].pc \in OnItsWay
  PROVE  LInv'
  <1>1. ASSUME NEW q \in Launchers \ {p}, launchers'[q] = launchers[q]
        PROVE  LauncherBound(launchers[q])' /\ RegistryBound(launchers[q])'
    <2>1. PICK l : l = launchers[q]
      OBVIOUS
    <2>2. LauncherBound(l) /\ RegistryBound(l)
      BY <2>1 DEF LInv
    <2>3. LauncherBound(l)' /\ RegistryBound(l)'
      BY <2>2, LauncherFrame, RegistryFrame
    <2> QED
      BY <1>1, <2>1, <2>3
  <1>2. RowsBound'
    BY RowsFrame DEF LInv
  <1>3. /\ rows' \in Seq(RowType) /\ registry' \in [Names -> Nat]
        /\ temporary' \in [Names -> Nat] \cup {NoFile}
    BY DEF LInv, Typed
  <1> QED
    BY <1>1, <1>2, <1>3, Moves

LEMMA AgentsStay ==
  ASSUME LInv, agents' = agents
  PROVE  /\ AgentsKeep /\ agents' \in Seq(AgentType) /\ AgentsNamed'
         /\ Own' = Own
  BY DEF LInv, Typed, AgentsKeep, AgentsNamed, InProject, Own

LEMMA LaunchEnds ==
  ASSUME LInv, NEW p \in Launchers, launchers[p].pc # "ready", Leave(p),
         UNCHANGED <<runtime, agents, registry, temporary, rows>>
  PROVE  LInv'
  <1>1. launchers' = [launchers EXCEPT ![p] = Ready]
    BY DEF Leave
  <1> QED
    BY <1>1, AgentsStay, ReadyBound, GoesOn

-----------------------------------------------------------------------------
(* The steps of a launch *)

LEMMA LoadedIsTyped ==
  ASSUME NEW kind \in Kinds, NEW settings \in Loaded(kind)
  PROVE  settings[1] \in Launchable /\ settings[2] \in Launchable
  BY DEF Launchable

LEMMA NamesAreNames ==
  ASSUME NEW name \in Names
  PROVE  name # None
  BY LaunchingAssumption DEF Names

LEMMA RowFields ==
  ASSUME LInv, NEW r \in DOMAIN rows
  PROVE  /\ rows[r] \in RowType /\ rows[r].name \in Names
         /\ rows[r].id \in Nat /\ rows[r].session \in Nat
  <1>1. rows[r] \in RowType
    BY DEF LInv, Typed
  <1> QED
    BY <1>1 DEF RowType

\* The fields of a launch that learned its id, or read the registry.
LEMMA LearnsId ==
  ASSUME LInv, NEW p \in Launchers, launchers[p].pc = "await",
         NEW pc \in {"read", "row"}, NEW id \in Own,
         runtime = "herdr" <=> pc = "row",
         runtime = "herdr" => id = launchers[p].session,
         launchers' = [launchers EXCEPT ![p].pc = pc, ![p].id = id],
         UNCHANGED <<runtime, agents, registry, temporary, rows>>
  PROVE  LInv'
  <1>1. PICK l \in LauncherType : l = launchers[p]
    BY DEF LInv, Typed
  <1> DEFINE new == [l EXCEPT !.pc = pc, !.id = id]
  <1>2. LauncherBound(l) /\ l.pc = "await"
    BY <1>1 DEF LInv
  <1>3. id \in Nat
    BY DEF LInv, Typed, Own
  <1>4. /\ new \in LauncherType /\ new.pc = pc /\ new.id = id
        /\ new.session = l.session /\ new.name = l.name /\ new.since = l.since
        /\ new.alone = l.alone
    BY <1>3 DEF LauncherType
  <1>5. AgentsKeep
    BY AgentsStay
  <1>6. LauncherBound(new)
    BY <1>1, <1>2, <1>4 DEF LauncherBound, Opened, Known
  <1>7. runtime \in {"herdr", "orca"}
    BY DEF LInv, Typed
  <1>8. RegistryBound(new)
    BY <1>4, <1>7 DEF RegistryBound
  <1>9. LauncherBound(new)' /\ RegistryBound(new)'
    BY <1>5, <1>6, <1>8, LauncherFrame, RegistryFrame
  <1>10. launchers' = [launchers EXCEPT ![p] = new]
    BY <1>1 DEF LInv, Typed
  <1>11. agents' \in Seq(AgentType) /\ AgentsNamed'
    BY AgentsStay
  <1>12. new.alone /\ new.pc \in OnItsWay =>
           launchers[p].alone /\ launchers[p].pc \in OnItsWay
    BY <1>1, <1>2, <1>4 DEF OnItsWay, Opened
  <1> QED
    BY <1>1, <1>2, <1>4, <1>5, <1>9, <1>10, <1>11, <1>12, GoesOn

LEMMA ReportedKeeps ==
  ASSUME LInv, NEW p \in Launchers, Reported(p)
  PROVE  LInv'
  <1>1. LauncherBound(launchers[p]) /\ launchers[p].pc = "await"
    BY DEF LInv, Reported, At
  <1>2. launchers[p].session \in Own
    BY <1>1 DEF LauncherBound, Opened
  <1> QED
    BY <1>1, <1>2, LearnsId DEF Reported

LEMMA FoundKeeps ==
  ASSUME LInv, NEW p \in Launchers, Found(p)
  PROVE  LInv'
  <1>1. launchers[p].pc = "await"
    BY DEF Found, At
  <1>2. LauncherBound(launchers[p])
    BY DEF LInv
  <1>3. launchers[p].since \subseteq DOMAIN agents
    BY <1>2 DEF LauncherBound
  <1>4. PICK id : /\ id \in StartedSince(p)
                  /\ launchers' = [launchers EXCEPT ![p].pc = "read", ![p].id = id]
    BY DEF Found
  <1>5. id \in Own
    BY <1>3, <1>4 DEF StartedSince, Own
  <1>6. runtime = "orca" /\ UNCHANGED <<runtime, agents, registry, temporary, rows>>
    BY DEF Found
  <1> QED
    BY <1>1, <1>4, <1>5, <1>6, LearnsId

LEMMA LaunchFails ==
  ASSUME LInv, NEW p \in Launchers, OpenFails(p) \/ GiveUp(p) \/ Kill(p)
  PROVE  LInv'
  <1>1. launchers[p].pc # "ready" /\ Leave(p)
    BY DEF OpenFails, GiveUp, Kill, At
  <1>2. UNCHANGED <<runtime, agents, registry, temporary, rows>>
    BY DEF OpenFails, GiveUp, Kill
  <1> QED
    BY <1>1, <1>2, LaunchEnds

LEMMA ReadRegistryKeeps ==
  ASSUME LInv, NEW p \in Launchers, ReadRegistry(p)
  PROVE  LInv'
  <1>1. PICK l \in LauncherType : l = launchers[p]
    BY DEF LInv, Typed
  <1>2. PICK known : known = [registry EXCEPT ![l.name] = l.session]
    OBVIOUS
  <1> DEFINE new == [l EXCEPT !.pc = "write", !.known = known]
  <1>3. LauncherBound(l) /\ l.pc = "read"
    BY <1>1 DEF LInv, ReadRegistry, At
  <1>4. registry \in [Names -> Nat] /\ runtime \in {"herdr", "orca"}
    BY DEF LInv, Typed
  <1>5. /\ known \in [Names -> Nat] /\ known[l.name] = l.session
        /\ \A name \in Names : name # l.name => known[name] = registry[name]
    BY <1>2, <1>4 DEF LauncherType
  <1>6. /\ new \in LauncherType /\ new.pc = "write" /\ new.id = l.id
        /\ new.session = l.session /\ new.name = l.name /\ new.since = l.since
        /\ new.alone = l.alone /\ new.known = known
    BY <1>5 DEF LauncherType
  <1>7. AgentsKeep
    BY AgentsStay DEF ReadRegistry
  <1>8. LauncherBound(new)
    BY <1>3, <1>6 DEF LauncherBound, Opened, Known
  <1>9. runtime = "orca"
    BY <1>3, <1>4 DEF LauncherBound
  <1>10. ASSUME NEW r \in DOMAIN rows, rows[r].alone
         PROVE  rows[r].session <= known[rows[r].name]
    <2>1. rows[r].name \in Names
      BY RowFields
    <2>2. rows[r].session <= l.session
      BY <1>3, <1>10 DEF LauncherBound, Opened
    <2>3. rows[r].session <= registry[rows[r].name]
      BY <1>9, <1>10 DEF LInv, RowsBound
    <2> QED
      BY <1>5, <2>1, <2>2, <2>3
  <1>11. RegistryBound(new)
    BY <1>5, <1>6, <1>10 DEF RegistryBound
  <1>12. UNCHANGED <<runtime, agents, registry, temporary, rows>>
    BY DEF ReadRegistry
  <1>13. LauncherBound(new)' /\ RegistryBound(new)'
    BY <1>7, <1>8, <1>11, <1>12, LauncherFrame, RegistryFrame
  <1>14. launchers' = [launchers EXCEPT ![p] = new]
    BY <1>1, <1>2 DEF LInv, Typed, ReadRegistry
  <1>15. agents' \in Seq(AgentType) /\ AgentsNamed'
    BY <1>12, AgentsStay
  <1>16. new.alone /\ new.pc \in OnItsWay =>
           launchers[p].alone /\ launchers[p].pc \in OnItsWay
    BY <1>1, <1>3, <1>6 DEF OnItsWay, Opened
  <1> QED
    BY <1>1, <1>3, <1>6, <1>7, <1>12, <1>13, <1>14, <1>15, <1>16, GoesOn

\* cmd_start_commentator's prompt.
LEMMA BriefKeeps ==
  ASSUME LInv, NEW p \in Launchers, Brief(p)
  PROVE  LInv'
  <1>1. PICK target : agents' = [s \in DOMAIN agents |->
          IF s = target THEN [agents[s] EXCEPT !.briefed = TRUE] ELSE agents[s]]
    BY DEF Brief
  <1>2. agents \in Seq(AgentType)
    BY DEF LInv, Typed
  <1>3. ASSUME NEW s \in DOMAIN agents
        PROVE  /\ agents'[s] \in AgentType
               /\ agents'[s].name = agents[s].name /\ agents'[s].dir = agents[s].dir
    <2>1. PICK a \in AgentType : a = agents[s]
      BY <1>2
    <2>2. /\ [a EXCEPT !.briefed = TRUE] \in AgentType
          /\ [a EXCEPT !.briefed = TRUE].name = a.name
          /\ [a EXCEPT !.briefed = TRUE].dir = a.dir
      BY DEF AgentType
    <2>3. agents'[s] = [a EXCEPT !.briefed = TRUE] \/ agents'[s] = a
      BY <1>1, <2>1
    <2> QED
      BY <2>1, <2>2, <2>3
  <1>4. DOMAIN agents' = DOMAIN agents
    BY <1>1
  <1>5. agents' \in Seq(AgentType)
    <2>1. Len(agents) \in Nat /\ DOMAIN agents = 1..Len(agents)
      BY <1>2
    <2>2. agents' = [s \in DOMAIN agents |-> agents'[s]]
      BY <1>1
    <2>3. agents' \in [1..Len(agents) -> AgentType]
      BY <1>3, <2>1, <2>2
    <2> QED
      BY <2>1, <2>3
  <1>6. AgentsKeep
    BY <1>3, <1>4 DEF AgentsKeep
  <1>7. AgentsNamed'
    BY <1>3, <1>4 DEF LInv, AgentsNamed, InProject
  <1>8. UNCHANGED <<runtime, registry, temporary, rows>>
    BY DEF Brief
  <1>9. launchers' = [launchers EXCEPT ![p] = Ready] /\ launchers[p].pc # "ready"
    BY DEF Brief, Leave, At
  <1> QED
    BY <1>5, <1>6, <1>7, <1>8, <1>9, ReadyBound, GoesOn

-----------------------------------------------------------------------------
(* The registry *)

LEMMA TerminalsAreAFile ==
  ASSUME NEW known \in [Names -> Nat]
  PROVE  known # NoFile
  <1>1. Commentator \in DOMAIN known
    BY DEF Names
  <1>2. Commentator \notin DOMAIN NoFile
    BY DEF NoFile
  <1> QED
    BY <1>1, <1>2

\* Two launches under way at once are neither of them alone.
LEMMA NotAlone ==
  ASSUME LInv, NEW p \in Launchers, NEW q \in Launchers, p # q,
         launchers[p].pc # "ready", launchers[q].pc \in OnItsWay
  PROVE  ~launchers[q].alone
  BY DEF LInv, AloneIsAlone

LEMMA WriteTemporaryKeeps ==
  ASSUME LInv, NEW p \in Launchers, WriteTemporary(p)
  PROVE  LInv'
  <1>1. PICK l \in LauncherType : l = launchers[p]
    BY DEF LInv, Typed
  <1> DEFINE new == [l EXCEPT !.pc = "rename", !.known = NoTerminals]
  <1>2. LauncherBound(l) /\ RegistryBound(l) /\ l.pc = "write"
    BY <1>1 DEF LInv, WriteTemporary, At
  <1>3. NoTerminals \in [Names -> Nat]
    BY DEF NoTerminals
  <1>4. /\ new \in LauncherType /\ new.pc = "rename" /\ new.id = l.id
        /\ new.session = l.session /\ new.name = l.name /\ new.since = l.since
        /\ new.alone = l.alone
    BY <1>3 DEF LauncherType
  <1>5. l.known \in [Names -> Nat] /\ l.known # NoFile
    BY TerminalsAreAFile DEF LauncherType
  <1>6. UNCHANGED <<runtime, agents, registry, rows>> /\ temporary' = l.known
    BY <1>1 DEF WriteTemporary
  <1>7. \A r \in DOMAIN rows : rows[r].alone => rows[r].session <= l.known[rows[r].name]
    BY <1>2 DEF RegistryBound
  <1>8. LauncherBound(new)
    BY <1>2, <1>4 DEF LauncherBound, Opened, Known
  <1>9. LauncherBound(new)'
    BY <1>6, <1>8, AgentsStay, LauncherFrame
  <1>10. RegistryBound(new)'
    BY <1>2, <1>4, <1>5, <1>6, <1>7 DEF RegistryBound
  <1>11. ASSUME NEW q \in Launchers \ {p}, launchers'[q] = launchers[q]
         PROVE  LauncherBound(launchers[q])' /\ RegistryBound(launchers[q])'
    <2>1. PICK k : k = launchers[q]
      OBVIOUS
    <2>2. LauncherBound(k) /\ RegistryBound(k)
      BY <2>1 DEF LInv
    <2>3. LauncherBound(k)'
      BY <1>6, <2>2, AgentsStay, LauncherFrame
    <2>4. k.pc \in {"rename", "row"} => ~k.alone
      BY <1>1, <1>2, <2>1, NotAlone DEF OnItsWay, Opened
    <2>5. RegistryBound(k)'
      BY <1>6, <1>7, <2>2, <2>4 DEF RegistryBound
    <2> QED
      BY <1>11, <2>1, <2>3, <2>5
  <1>12. RowsBound'
    BY <1>6, AgentsStay, RowsFrame DEF LInv
  <1>13. launchers' = [launchers EXCEPT ![p] = new]
    BY <1>1 DEF LInv, Typed, WriteTemporary
  <1>14. /\ rows' \in Seq(RowType) /\ registry' \in [Names -> Nat]
         /\ temporary' \in [Names -> Nat] \cup {NoFile}
    BY <1>5, <1>6 DEF LInv, Typed
  <1>15. new.alone /\ new.pc \in OnItsWay =>
           launchers[p].alone /\ launchers[p].pc \in OnItsWay
    BY <1>1, <1>2, <1>4 DEF OnItsWay, Opened
  <1> QED
    BY <1>1, <1>2, <1>4, <1>6, <1>9, <1>10, <1>11, <1>12, <1>13, <1>14, <1>15,
       AgentsStay, Moves

LEMMA RenameKeeps ==
  ASSUME LInv, NEW p \in Launchers, Rename(p)
  PROVE  LInv'
  <1>1. PICK l \in LauncherType : l = launchers[p]
    BY DEF LInv, Typed
  <1> DEFINE new == [l EXCEPT !.pc = "row"]
  <1>2. LauncherBound(l) /\ RegistryBound(l) /\ l.pc = "rename"
    BY <1>1 DEF LInv, Rename, At
  <1>3. UNCHANGED <<runtime, agents, rows>>
    BY DEF Rename
  <1>4. CASE temporary = NoFile
    <2>1. Leave(p) /\ UNCHANGED <<registry, temporary>>
      BY <1>4 DEF Rename
    <2> QED
      BY <1>1, <1>2, <1>3, <2>1, LaunchEnds
  <1>5. CASE temporary # NoFile
    <2>1. /\ registry' = temporary /\ temporary' = NoFile
          /\ launchers' = [launchers EXCEPT ![p].pc = "row"]
      BY <1>5 DEF Rename
    <2>2. temporary \in [Names -> Nat] /\ runtime \in {"herdr", "orca"}
      BY <1>5 DEF LInv, Typed
    <2>3. /\ new \in LauncherType /\ new.pc = "row" /\ new.id = l.id
          /\ new.session = l.session /\ new.name = l.name /\ new.since = l.since
          /\ new.alone = l.alone
      BY DEF LauncherType
    <2>4. runtime = "orca"
      BY <1>2, <2>2 DEF LauncherBound
    <2>5. \A r \in DOMAIN rows : rows[r].alone => rows[r].session <= temporary[rows[r].name]
      BY <1>2, <1>5 DEF RegistryBound
    <2>6. LauncherBound(new)
      BY <1>2, <2>3, <2>4 DEF LauncherBound, Opened, Known
    <2>7. LauncherBound(new)'
      BY <1>3, <2>6, AgentsStay, LauncherFrame
    <2>8. RegistryBound(new)'
      BY <1>2, <1>5, <2>1, <2>3 DEF RegistryBound
    <2>9. ASSUME NEW q \in Launchers \ {p}, launchers'[q] = launchers[q]
          PROVE  LauncherBound(launchers[q])' /\ RegistryBound(launchers[q])'
      <3>1. PICK k : k = launchers[q]
        OBVIOUS
      <3>2. LauncherBound(k) /\ RegistryBound(k)
        BY <3>1 DEF LInv
      <3>3. LauncherBound(k)'
        BY <1>3, <3>2, AgentsStay, LauncherFrame
      <3>4. k.pc \in {"rename", "row"} => ~k.alone
        BY <1>1, <1>2, <3>1, NotAlone DEF OnItsWay, Opened
      <3>5. RegistryBound(k)'
        BY <1>3, <2>1, <3>2, <3>4 DEF RegistryBound
      <3> QED
        BY <2>9, <3>1, <3>3, <3>5
    <2>10. RowsBound'
      BY <1>3, <2>1, <2>5, AgentsStay DEF LInv, RowsBound
    <2>11. launchers' = [launchers EXCEPT ![p] = new]
      BY <1>1, <2>1 DEF LInv, Typed
    <2>12. /\ rows' \in Seq(RowType) /\ registry' \in [Names -> Nat]
           /\ temporary' \in [Names -> Nat] \cup {NoFile}
      BY <1>3, <2>1, <2>2 DEF LInv, Typed
    <2>13. new.alone /\ new.pc \in OnItsWay =>
             launchers[p].alone /\ launchers[p].pc \in OnItsWay
      BY <1>1, <1>2, <2>3 DEF OnItsWay, Opened
    <2> QED
      BY <1>1, <1>2, <1>3, <2>3, <2>7, <2>8, <2>9, <2>10, <2>11, <2>12, <2>13,
         AgentsStay, Moves
  <1> QED
    BY <1>4, <1>5

-----------------------------------------------------------------------------
(* The row *)

\* What one more row does to the table.
LEMMA RowsGrow ==
  ASSUME LInv, NEW name, NEW row \in RowType, rows' = Append(StopNamed(name), row)
  PROVE  /\ rows' \in Seq(RowType) /\ DOMAIN rows' = DOMAIN rows \cup {Len(rows) + 1}
         /\ Len(rows) + 1 \notin DOMAIN rows /\ rows'[Len(rows) + 1] = row
         /\ \A r \in DOMAIN rows :
              /\ rows'[r].name = rows[r].name /\ rows'[r].id = rows[r].id
              /\ rows'[r].session = rows[r].session /\ rows'[r].alone = rows[r].alone
  <1> DEFINE stopped == StopNamed(name)
  <1>1. rows \in Seq(RowType)
    BY DEF LInv, Typed
  <1>2. ASSUME NEW r \in DOMAIN rows
        PROVE  /\ stopped[r] \in RowType
               /\ stopped[r].name = rows[r].name /\ stopped[r].id = rows[r].id
               /\ stopped[r].session = rows[r].session /\ stopped[r].alone = rows[r].alone
    <2>1. PICK old \in RowType : old = rows[r]
      BY <1>1
    <2> DEFINE new == [old EXCEPT !.live = FALSE]
    <2>2. /\ new \in RowType /\ new.name = old.name /\ new.id = old.id
          /\ new.session = old.session /\ new.alone = old.alone
      BY DEF RowType
    <2>3. stopped[r] = new \/ stopped[r] = old
      BY <2>1 DEF StopNamed
    <2> QED
      BY <2>1, <2>2, <2>3
  <1>3. DOMAIN rows = 1..Len(rows) /\ Len(rows) \in Nat
    BY <1>1
  <1>4. stopped \in Seq(RowType) /\ Len(stopped) = Len(rows)
    <2>1. stopped = [r \in DOMAIN rows |-> stopped[r]]
      BY DEF StopNamed
    <2> HIDE DEF stopped
    <2>2. stopped \in [1..Len(rows) -> RowType]
      BY <1>2, <1>3, <2>1
    <2> QED
      BY <1>3, <2>2
  <1>5. rows' = Append(stopped, row)
    OBVIOUS
  <1> HIDE DEF stopped
  <1>6. /\ rows' \in Seq(RowType) /\ DOMAIN rows' = 1..(Len(rows) + 1)
        /\ rows'[Len(rows) + 1] = row /\ \A r \in DOMAIN rows : rows'[r] = stopped[r]
    BY <1>3, <1>4, <1>5
  <1>7. \A r \in DOMAIN rows :
          /\ rows'[r].name = rows[r].name /\ rows'[r].id = rows[r].id
          /\ rows'[r].session = rows[r].session /\ rows'[r].alone = rows[r].alone
    BY <1>2, <1>6
  <1>8. DOMAIN rows' = DOMAIN rows \cup {Len(rows) + 1} /\ Len(rows) + 1 \notin DOMAIN rows
    BY <1>3, <1>6
  <1> QED
    BY <1>6, <1>7, <1>8

LEMMA OwnAreAgents ==
  ASSUME LInv
  PROVE  Own \subseteq DOMAIN agents /\ DOMAIN agents \subseteq Nat \ {0}
  BY DEF LInv, Typed, Own

LEMMA WriteRowKeeps ==
  ASSUME LInv, NEW p \in Launchers, WriteRow(p)
  PROVE  LInv'
  <1>1. PICK l \in LauncherType : l = launchers[p]
    BY DEF LInv, Typed
  <1>2. LauncherBound(l) /\ RegistryBound(l) /\ l.pc = "row"
    BY <1>1 DEF LInv, WriteRow, At
  <1>3. UNCHANGED <<runtime, agents, registry, temporary>>
    BY DEF WriteRow
  <1>4. CASE Leave(p) /\ UNCHANGED rows
    BY <1>1, <1>2, <1>3, <1>4, LaunchEnds
  <1>5. CASE /\ \A r \in DOMAIN rows : rows[r].id # launchers[p].id
             /\ rows' = Append(StopNamed(launchers[p].name), RowOf(p)) /\ Written(p)
    <2>1. PICK row \in RowType : row = RowOf(p)
      BY <1>1 DEF RowOf, RowType, LauncherType
    <2>2. /\ row.name = l.name /\ row.id = l.id /\ row.session = l.session
          /\ row.alone = l.alone
      BY <1>1, <2>1 DEF RowOf
    <2>3. rows' = Append(StopNamed(l.name), row)
      BY <1>1, <1>5, <2>1
    <2>4. PICK n : n = Len(rows) + 1
      OBVIOUS
    <2>5. /\ rows' \in Seq(RowType) /\ DOMAIN rows' = DOMAIN rows \cup {n}
          /\ n \notin DOMAIN rows /\ rows'[n] = row
          /\ \A r \in DOMAIN rows :
               /\ rows'[r].name = rows[r].name /\ rows'[r].id = rows[r].id
               /\ rows'[r].session = rows[r].session /\ rows'[r].alone = rows[r].alone
      BY <2>3, <2>4, RowsGrow
    <2>6. /\ l.session \in Own /\ agents[l.session].name = l.name /\ l.id \in Own
          /\ \A r \in DOMAIN rows : rows[r].session # l.session
      BY <1>2 DEF LauncherBound, Opened, Known
    <2>7. l.session # 0
      BY <2>6, OwnAreAgents
    <2>8. runtime = "orca" /\ l.alone => registry[l.name] = l.session
      BY <1>2 DEF RegistryBound
    <2>9. runtime = "herdr" => l.id = l.session
      BY <1>2 DEF LauncherBound
    <2>10. Own' = Own
      BY <1>3, AgentsStay
    <2>11. RowsBound'
      <3>1. ASSUME NEW r \in DOMAIN rows'
            PROVE  /\ rows'[r].id \in Own
                   /\ rows'[r].session \in Own
                   /\ agents[rows'[r].session].name = rows'[r].name
                   /\ runtime = "herdr" => rows'[r].id = rows'[r].session
                   /\ runtime = "orca" /\ rows'[r].alone =>
                        rows'[r].session <= registry[rows'[r].name]
        <4>1. CASE r \in DOMAIN rows
          BY <2>5, <4>1 DEF LInv, RowsBound
        <4>2. CASE r = n
          <5>1. l.session \in Nat
            BY DEF LauncherType
          <5> QED
            BY <2>2, <2>5, <2>6, <2>8, <2>9, <4>2, <5>1
        <4> QED
          BY <2>5, <4>1, <4>2
      <3>2. \A r, s \in DOMAIN rows' : rows'[r].id = rows'[s].id => r = s
        <4>1. \A r \in DOMAIN rows : rows[r].id # l.id
          BY <1>1, <1>5
        <4> QED
          BY <2>2, <2>5, <4>1 DEF LInv, RowsBound
      <3> QED
        BY <1>3, <2>10, <3>1, <3>2 DEF RowsBound
    <2>12. ASSUME NEW q \in Launchers \ {p}, launchers'[q] = launchers[q]
           PROVE  LauncherBound(launchers[q])' /\ RegistryBound(launchers[q])'
      <3>1. PICK k \in LauncherType : k = launchers[q]
        BY DEF LInv, Typed
      <3>2. LauncherBound(k) /\ RegistryBound(k)
        BY <3>1 DEF LInv
      <3>3. k.pc \in OnItsWay => ~k.alone /\ ~l.alone
        BY <1>1, <1>2, <3>1, NotAlone DEF OnItsWay, Opened
      <3>4. k.session # l.session
        BY <1>1, <2>7, <3>1 DEF LInv, SessionsApart
      <3>5. LauncherBound(k)'
        BY <1>3, <2>2, <2>5, <2>10, <3>2, <3>3, <3>4 DEF LauncherBound, OnItsWay
      <3>6. RegistryBound(k)'
        BY <1>3, <2>2, <2>5, <3>2, <3>3 DEF RegistryBound, OnItsWay, Opened
      <3> QED
        BY <2>12, <3>1, <3>5, <3>6
    <2>13. PICK ready \in {Ready, [Ready EXCEPT !.pc = "brief"]} :
             launchers' = [launchers EXCEPT ![p] = ready]
      BY <1>5 DEF Written
    <2>14. /\ registry' \in [Names -> Nat]
           /\ temporary' \in [Names -> Nat] \cup {NoFile}
      BY <1>3 DEF LInv, Typed
    <2>15. /\ ready \in LauncherType /\ ready.session = 0 /\ ready.pc \notin OnItsWay
           /\ (LauncherBound(ready) /\ RegistryBound(ready))'
      BY ReadyBound
    <2> QED
      BY <1>1, <1>2, <1>3, <2>5, <2>11, <2>12, <2>13, <2>14, <2>15, AgentsStay, Moves
  <1> QED
    BY <1>4, <1>5 DEF WriteRow

-----------------------------------------------------------------------------
(* Launches that start, agents, and what they write *)

LEMMA BeginKeeps ==
  ASSUME LInv, NEW p \in Launchers, NEW name \in Names, Begin(p, name)
  PROVE  LInv'
  <1>0. PICK alone \in BOOLEAN : alone = ({q \in Launchers : ~At(q, "ready")} = {})
    OBVIOUS
  <1>1. Kind(name) \in Kinds
    BY DEF Kind, Kinds
  <1>2. Launches[Kind(name)] = Loaded(Kind(name))
    BY <1>1 DEF Launches
  <1>3. PICK settings \in Loaded(Kind(name)) :
          launchers' = [q \in Launchers |->
            IF q = p
            THEN [Ready EXCEPT !.pc = "open", !.name = name, !.agent = settings[1],
                    !.flags = settings[2], !.alone = alone]
            ELSE [launchers[q] EXCEPT !.alone = FALSE]]
    BY <1>0, <1>2 DEF Begin
  <1>4. settings[1] \in Launchable /\ settings[2] \in Launchable
    BY <1>1, LoadedIsTyped
  <1> DEFINE new == [Ready EXCEPT !.pc = "open", !.name = name, !.agent = settings[1],
                       !.flags = settings[2], !.alone = alone]
  <1>5. NoTerminals \in [Names -> Nat]
    BY DEF NoTerminals
  <1>6. /\ new \in LauncherType /\ new.pc = "open" /\ new.session = 0 /\ new.since = {}
        /\ new.alone = alone
    BY <1>4, <1>5 DEF Ready, LauncherType
  <1>7. /\ UNCHANGED <<runtime, agents, registry, temporary, rows>>
        /\ launchers[p].pc = "ready"
    BY DEF Begin, At
  <1>8. LauncherBound(new)' /\ RegistryBound(new)'
    BY <1>6 DEF LauncherBound, RegistryBound, Opened, Known
  <1> HIDE DEF new
  <1>9. launchers'[p] = new
    BY <1>3 DEF new
  <1>10. ASSUME NEW q \in Launchers, q # p
         PROVE  /\ launchers'[q] \in LauncherType
                /\ (LauncherBound(launchers[q]) /\ RegistryBound(launchers[q]))'
                /\ launchers'[q].session = launchers[q].session
                /\ launchers'[q].pc = launchers[q].pc /\ ~launchers'[q].alone
    <2>1. PICK k \in LauncherType : k = launchers[q]
      BY DEF LInv, Typed
    <2>2. PICK other : other = [k EXCEPT !.alone = FALSE]
      OBVIOUS
    <2>3. /\ other \in LauncherType /\ other.pc = k.pc /\ other.name = k.name
          /\ other.session = k.session /\ other.id = k.id /\ other.since = k.since
          /\ other.known = k.known /\ other.alone = FALSE
      BY <2>2 DEF LauncherType
    <2>4. LauncherBound(k) /\ RegistryBound(k)
      BY <2>1 DEF LInv
    <2>5. LauncherBound(other) /\ RegistryBound(other)
      BY <2>3, <2>4 DEF LauncherBound, RegistryBound
    <2>6. LauncherBound(other)' /\ RegistryBound(other)'
      BY <1>7, <2>5, AgentsStay, LauncherFrame, RegistryFrame
    <2>7. launchers'[q] = other
      BY <1>3, <1>10, <2>1, <2>2
    <2> QED
      BY <2>1, <2>3, <2>6, <2>7
  <1>11. Typed'
    <2>1. launchers' = [q \in Launchers |-> launchers'[q]]
      BY <1>3
    <2>2. \A q \in Launchers : launchers'[q] \in LauncherType
      BY <1>6, <1>9, <1>10
    <2>3. launchers' \in [Launchers -> LauncherType]
      BY <2>1, <2>2
    <2> QED
      BY <1>7, <2>3 DEF LInv, Typed
  <1>12. AloneIsAlone'
    <2>1. ASSUME alone, NEW q \in Launchers, q # p
          PROVE  launchers'[q].pc = "ready"
      BY <1>0, <1>10, <2>1 DEF At
    <2> QED
      BY <1>6, <1>9, <1>10, <2>1 DEF AloneIsAlone
  <1>13. SessionsApart'
    BY <1>6, <1>9, <1>10 DEF LInv, SessionsApart
  <1>14. RowsBound' /\ AgentsNamed'
    BY <1>7, AgentsStay, RowsFrame DEF LInv
  <1>15. ASSUME NEW q \in Launchers
         PROVE  (LauncherBound(launchers[q]) /\ RegistryBound(launchers[q]))'
    <2>1. CASE q = p
      <3>1. launchers'[q] = new
        BY <1>9, <2>1
      <3> QED
        BY <1>8, <3>1
    <2> QED
      BY <1>10, <2>1
  <1> QED
    BY <1>11, <1>12, <1>13, <1>14, <1>15 DEF LInv

LEMMA AgentsGrow ==
  ASSUME LInv, NEW a \in AgentType, agents' = Append(agents, a),
         a.dir = RunDir <=> a.name # None
  PROVE  /\ AgentsKeep /\ agents' \in Seq(AgentType) /\ AgentsNamed'
         /\ agents'[Len(agents) + 1] = a /\ Len(agents) + 1 \notin DOMAIN agents
         /\ Len(agents) + 1 \in Nat \ {0} /\ Len(agents) + 1 \in DOMAIN agents'
         /\ \A s \in DOMAIN agents : s < Len(agents) + 1
  <1>1. agents \in Seq(AgentType)
    BY DEF LInv, Typed
  <1>2. /\ agents' \in Seq(AgentType) /\ agents'[Len(agents) + 1] = a
        /\ DOMAIN agents = 1..Len(agents) /\ Len(agents) \in Nat
        /\ DOMAIN agents' = 1..(Len(agents) + 1)
        /\ \A s \in DOMAIN agents : agents'[s] = agents[s]
    BY <1>1
  <1>3. AgentsKeep
    BY <1>2 DEF AgentsKeep
  <1>4. AgentsNamed'
    <2>1. \A s \in DOMAIN agents' : s \in DOMAIN agents \/ s = Len(agents) + 1
      BY <1>2
    <2> QED
      BY <1>2, <2>1 DEF LInv, AgentsNamed, InProject
  <1> QED
    BY <1>2, <1>3, <1>4

LEMMA OpenKeeps ==
  ASSUME LInv, NEW p \in Launchers, Open(p)
  PROVE  LInv'
  <1>1. PICK l \in LauncherType : l = launchers[p]
    BY DEF LInv, Typed
  <1>2. LauncherBound(l) /\ l.pc = "open"
    BY <1>1 DEF LInv, Open, At
  <1>3. PICK session : session = Len(agents) + 1
    OBVIOUS
  <1>4. PICK a : a = [name |-> l.name, dir |-> RunDir, agent |-> l.agent,
                      flags |-> l.flags, briefed |-> FALSE]
    OBVIOUS
  <1>5. l.name \in Names /\ l.agent \in Launchable /\ l.flags \in Launchable
    BY DEF LauncherType
  <1>6. /\ a \in AgentType /\ a.name = l.name /\ a.dir = RunDir
    BY <1>4, <1>5 DEF AgentType
  <1>7. a.name # None
    BY <1>5, <1>6, NamesAreNames
  <1>8. agents' = Append(agents, a)
    BY <1>1, <1>4 DEF Open
  <1>9. /\ AgentsKeep /\ agents' \in Seq(AgentType) /\ AgentsNamed'
        /\ agents'[session] = a /\ session \notin DOMAIN agents
        /\ session \in Nat \ {0} /\ session \in DOMAIN agents'
        /\ \A s \in DOMAIN agents : s < session
    BY <1>3, <1>6, <1>7, <1>8, AgentsGrow
  <1>10. UNCHANGED <<runtime, files, registry, temporary, rows>>
    BY DEF Open
  <1>11. PICK new : /\ \/ /\ runtime = "orca"
                          /\ new = [l EXCEPT !.pc = "read", !.session = session, !.id = session]
                       \/ new = [l EXCEPT !.pc = "await", !.session = session]
                    /\ launchers' = [launchers EXCEPT ![p] = new]
    BY <1>1, <1>3 DEF Open
  <1>12. /\ new \in LauncherType /\ new.session = session /\ new.name = l.name
         /\ new.since = l.since /\ new.alone = l.alone
         /\ \/ new.pc = "read" /\ new.id = session /\ runtime = "orca"
            \/ new.pc = "await"
    BY <1>9, <1>11 DEF LauncherType
  <1>13. session \in Own'
    BY <1>6, <1>9 DEF Own, InProject
  <1>14. ASSUME NEW r \in DOMAIN rows
         PROVE  rows[r].session # session /\ rows[r].id # session /\ rows[r].session <= session
    <2>1. rows[r].session \in DOMAIN agents /\ rows[r].id \in DOMAIN agents
      BY DEF LInv, RowsBound, Own
    <2>2. rows[r].session \in Nat
      BY RowFields
    <2> QED
      BY <1>9, <2>1, <2>2
  <1>15. l.since \subseteq DOMAIN agents'
    BY <1>2, <1>9 DEF LauncherBound, AgentsKeep
  <1>16. LauncherBound(new)'
    BY <1>6, <1>9, <1>10, <1>12, <1>13, <1>14, <1>15 DEF LauncherBound, Opened, Known
  <1>17. RegistryBound(new)'
    BY <1>12 DEF RegistryBound
  <1>18. ASSUME NEW q \in Launchers
         PROVE  launchers[q].session # new.session
    <2>1. PICK k \in LauncherType : k = launchers[q]
      BY DEF LInv, Typed
    <2>2. LauncherBound(k)
      BY <2>1 DEF LInv
    <2>3. k.session = 0 \/ k.session \in DOMAIN agents
      BY <2>2 DEF LauncherBound, Own
    <2> QED
      BY <1>9, <1>12, <2>1, <2>3
  <1>19. new.alone /\ new.pc \in OnItsWay =>
           launchers[p].alone /\ launchers[p].pc \in OnItsWay
    BY <1>1, <1>2, <1>12 DEF OnItsWay, Opened
  <1> QED
    BY <1>1, <1>2, <1>9, <1>10, <1>11, <1>12, <1>16, <1>17, <1>18, <1>19, GoesOn

LEMMA ElsewhereKeeps ==
  ASSUME LInv, NEW dir \in OtherDirs, NEW agent \in AgentKinds, StartElsewhere(dir, agent)
  PROVE  LInv'
  <1>1. PICK a : a = [name |-> None, dir |-> dir, agent |-> agent,
                      flags |-> agent, briefed |-> FALSE]
    OBVIOUS
  <1>2. a \in AgentType /\ a.name = None /\ a.dir # RunDir
    BY <1>1, LaunchingAssumption DEF AgentType, Launchable
  <1>3. agents' = Append(agents, a)
    BY <1>1 DEF StartElsewhere
  <1>4. AgentsKeep /\ agents' \in Seq(AgentType) /\ AgentsNamed'
    BY <1>2, <1>3, AgentsGrow
  <1>5. UNCHANGED <<runtime, registry, temporary, rows, launchers>>
    BY DEF StartElsewhere
  <1>6. ASSUME NEW q \in Launchers
        PROVE  (LauncherBound(launchers[q]) /\ RegistryBound(launchers[q]))'
    <2>1. PICK k : k = launchers[q]
      OBVIOUS
    <2>2. LauncherBound(k) /\ RegistryBound(k)
      BY <2>1 DEF LInv
    <2>3. LauncherBound(k)' /\ RegistryBound(k)'
      BY <1>4, <1>5, <2>2, LauncherFrame, RegistryFrame
    <2> QED
      BY <1>5, <2>1, <2>3
  <1>7. Typed' /\ AloneIsAlone' /\ SessionsApart'
    BY <1>4, <1>5 DEF LInv, Typed, AloneIsAlone, SessionsApart
  <1>8. RowsBound'
    BY <1>4, <1>5, RowsFrame DEF LInv
  <1> QED
    BY <1>4, <1>6, <1>7, <1>8 DEF LInv

LEMMA WriteKeeps ==
  ASSUME LInv, NEW s \in DOMAIN agents, Write(s)
  PROVE  LInv'
  <1>1. UNCHANGED <<runtime, agents, registry, temporary, rows>>
    BY DEF Write
  <1>2. s \in Nat
    BY OwnAreAgents
  <1>3. ASSUME NEW q \in Launchers
        PROVE  /\ launchers'[q] \in LauncherType
               /\ (LauncherBound(launchers[q]) /\ RegistryBound(launchers[q]))'
               /\ launchers'[q].session = launchers[q].session
               /\ launchers'[q].pc = launchers[q].pc
               /\ launchers'[q].alone = launchers[q].alone
    <2>1. PICK k \in LauncherType : k = launchers[q]
      BY DEF LInv, Typed
    <2>2. PICK other : /\ other \in {k, [k EXCEPT !.since = @ \cup {s}]}
                       /\ launchers'[q] = other
      BY <2>1 DEF Write
    <2>3. LauncherBound(k) /\ RegistryBound(k)
      BY <2>1 DEF LInv
    <2>4. /\ other \in LauncherType /\ other.pc = k.pc /\ other.name = k.name
          /\ other.session = k.session /\ other.id = k.id
          /\ other.since \in {k.since, k.since \cup {s}}
          /\ other.known = k.known /\ other.alone = k.alone
      BY <1>2, <2>2 DEF LauncherType
    <2>5. LauncherBound(other) /\ RegistryBound(other)
      BY <2>3, <2>4 DEF LauncherBound, RegistryBound
    <2>6. LauncherBound(other)' /\ RegistryBound(other)'
      BY <1>1, <2>5, AgentsStay, LauncherFrame, RegistryFrame
    <2> QED
      BY <2>1, <2>2, <2>4, <2>6
  <1>4. Typed'
    <2>1. launchers' = [q \in Launchers |-> launchers'[q]]
      BY DEF Write
    <2>2. launchers' \in [Launchers -> LauncherType]
      BY <1>3, <2>1
    <2> QED
      BY <1>1, <2>2 DEF LInv, Typed
  <1>5. AloneIsAlone' /\ SessionsApart'
    BY <1>3 DEF LInv, AloneIsAlone, SessionsApart
  <1>6. RowsBound' /\ AgentsNamed'
    BY <1>1, AgentsStay, RowsFrame DEF LInv
  <1> QED
    BY <1>3, <1>4, <1>5, <1>6 DEF LInv

-----------------------------------------------------------------------------
LEMMA InitBound == Init => LInv
  <1> SUFFICES ASSUME Init PROVE LInv
    OBVIOUS
  <1>1. Commentator \in Names /\ Claude \in Launchable /\ NoTerminals \in [Names -> Nat]
    BY SettingsAssumption DEF Names, NoTerminals, Launchable
  <1>2. Ready \in LauncherType
    BY <1>1 DEF Ready, LauncherType
  <1>3. rows = <<>> /\ agents = <<>>
    BY DEF Init
  <1>4. launchers \in [Launchers -> LauncherType]
    BY <1>2 DEF Init
  <1>5. runtime \in {"herdr", "orca"} /\ registry = NoTerminals /\ temporary = NoFile
    BY LaunchingAssumption DEF Init
  <1>6. Typed
    BY <1>1, <1>3, <1>4, <1>5 DEF Typed
  <1>7. Ready.pc = "ready" /\ Ready.session = 0 /\ Ready.since = {}
    BY DEF Ready
  <1>8. \A p \in Launchers : launchers[p] = Ready
    BY DEF Init
  <1>9. LauncherBound(Ready) /\ RegistryBound(Ready)
    BY <1>7 DEF LauncherBound, RegistryBound, Opened, Known
  <1>10. AloneIsAlone /\ SessionsApart
    BY <1>7, <1>8 DEF AloneIsAlone, SessionsApart
  <1>11. RowsBound /\ AgentsNamed
    BY <1>3 DEF RowsBound, AgentsNamed
  <1> QED
    BY <1>6, <1>8, <1>9, <1>10, <1>11 DEF LInv

LEMMA BoundsHold == LInv /\ [Next]_vars => LInv'
  <1> SUFFICES ASSUME LInv, [Next]_vars PROVE LInv'
    OBVIOUS
  <1>1. ASSUME NEW p \in Launchers, NEW name \in Names, Begin(p, name)
        PROVE  LInv'
    BY <1>1, BeginKeeps
  <1>2. ASSUME NEW p \in Launchers,
               Open(p) \/ OpenFails(p) \/ Reported(p) \/ Found(p) \/ GiveUp(p)
        PROVE  LInv'
    BY <1>2, OpenKeeps, LaunchFails, ReportedKeeps, FoundKeeps
  <1>3. ASSUME NEW p \in Launchers,
               ReadRegistry(p) \/ WriteTemporary(p) \/ Rename(p) \/ WriteRow(p)
               \/ Brief(p) \/ Kill(p)
        PROVE  LInv'
    BY <1>3, ReadRegistryKeeps, WriteTemporaryKeeps, RenameKeeps, WriteRowKeeps,
       BriefKeeps, LaunchFails
  <1>4. ASSUME NEW s \in DOMAIN agents, Write(s)
        PROVE  LInv'
    BY <1>4, WriteKeeps
  <1>5. ASSUME NEW dir \in OtherDirs, NEW agent \in AgentKinds, StartElsewhere(dir, agent)
        PROVE  LInv'
    BY <1>5, ElsewhereKeeps
  <1>6. CASE UNCHANGED vars
    <2>1. UNCHANGED <<runtime, agents, registry, temporary, rows, launchers>>
      BY <1>6 DEF vars
    <2>2. ASSUME NEW q \in Launchers
          PROVE  (LauncherBound(launchers[q]) /\ RegistryBound(launchers[q]))'
      <3>1. PICK k : k = launchers[q]
        OBVIOUS
      <3>2. LauncherBound(k) /\ RegistryBound(k)
        BY <3>1 DEF LInv
      <3>3. LauncherBound(k)' /\ RegistryBound(k)'
        BY <2>1, <3>2, AgentsStay, LauncherFrame, RegistryFrame
      <3> QED
        BY <2>1, <3>1, <3>3
    <2>3. RowsBound' /\ AgentsNamed'
      BY <2>1, AgentsStay, RowsFrame DEF LInv
    <2>4. Typed' /\ AloneIsAlone' /\ SessionsApart'
      BY <2>1 DEF LInv, Typed, AloneIsAlone, SessionsApart
    <2> QED
      BY <2>2, <2>3, <2>4 DEF LInv
  <1> QED
    BY <1>1, <1>2, <1>3, <1>4, <1>5, <1>6 DEF Next

-----------------------------------------------------------------------------
(* Types *)

LEMMA SetsAreSets == Sets \subseteq Seq(Set)
  <1>1. \A args \in AgentKinds : [EmptyTable EXCEPT !.implementer.args = args] \in Table
    BY DEF EmptyTable, Table, Kinds, Role
  <1>2. \A agent \in AgentKinds : [EmptyTable EXCEPT !.implementer.agent = agent] \in Table
    BY DEF EmptyTable, Table, Kinds, Role
  <1>3. Layers \subseteq Table
    BY LayersAreTables
  <1>4. \A layer \in Layers : <<[key |-> "implementer", table |-> layer]>> \in Seq(Set)
    BY <1>3 DEF Set
  <1>5. ASSUME NEW args \in AgentKinds, NEW agent \in AgentKinds
        PROVE  <<[key |-> "implementer.args",
                  table |-> [EmptyTable EXCEPT !.implementer.args = args]],
                 [key |-> "implementer.agent",
                  table |-> [EmptyTable EXCEPT !.implementer.agent = agent]]>> \in Seq(Set)
    BY <1>1, <1>2 DEF Set
  <1>6. <<>> \in Seq(Set)
    OBVIOUS
  <1> SUFFICES ASSUME NEW sets \in Sets PROVE sets \in Seq(Set)
    OBVIOUS
  <1>7. CASE sets = <<>>
    BY <1>6, <1>7
  <1>8. ASSUME NEW layer \in Layers, sets = <<[key |-> "implementer", table |-> layer]>>
        PROVE  sets \in Seq(Set)
    BY <1>4, <1>8
  <1>9. ASSUME NEW args \in AgentKinds, NEW agent \in AgentKinds,
               sets = <<[key |-> "implementer.args",
                         table |-> [EmptyTable EXCEPT !.implementer.args = args]],
                        [key |-> "implementer.agent",
                         table |-> [EmptyTable EXCEPT !.implementer.agent = agent]]>>
        PROVE  sets \in Seq(Set)
    BY <1>5, <1>9
  <1> QED
    BY <1>7, <1>8, <1>9 DEF Sets

\* Whatever the files and the flags say, what is launched is an agent, with the
\* flags of one.
LEMMA LoadedAreAgents ==
  ASSUME NEW kind \in Kinds, NEW settings \in Loaded(kind)
  PROVE  settings[1] \in AgentKinds /\ settings[2] \in AgentKinds
  <1>1. PICK f \in Layers \X Layers \X Sets :
          settings = <<LaunchAgent(Load(f[1], f[2], EmptyTable, f[3]), kind),
                       LaunchArgs(Load(f[1], f[2], EmptyTable, f[3]), kind)>>
    BY DEF Loaded
  <1>2. f[1] \in Table /\ f[2] \in Table /\ f[3] \in Seq(Set)
    BY LayersAreTables, SetsAreSets
  <1>3. "agent" \in Keys
    BY DEF Keys
  <1>4. SetsLayer(f[3]) \in Table
    BY <1>2, <1>3, SetsDecide
  <1>5. Load(f[1], f[2], EmptyTable, f[3]) \in Table
    BY <1>2, <1>4, EmptyTableIsTable, LayOverIsTable DEF Load
  <1>6. PICK role \in Role : role = Load(f[1], f[2], EmptyTable, f[3])[kind]
    BY <1>5 DEF Table
  <1> QED
    BY <1>1, <1>6, SettingsAssumption DEF Role, LaunchAgent, LaunchArgs

LEMMA LaunchableAreAgents == Launchable = AgentKinds
  BY LoadedAreAgents DEF Launchable

\* Launches that are yet to open their terminal have room for it: no process
\* starts one when the others under way may fill the last.
Opening == {p \in Launchers : launchers[p].pc = "open"}

UnderWay == {p \in Launchers : launchers[p].pc # "ready"}

Room == IsFiniteSet(UnderWay) /\ Len(agents) + Cardinality(Opening) <= MaxAgents

\* Terminals of agents there are.
InReach(terminals) == \A name \in Names : terminals[name] <= Len(agents)

TypeInv ==
  /\ LInv /\ Room /\ runtime \in Runtimes /\ files \in Seq(DOMAIN agents)
  /\ InReach(registry) /\ (temporary # NoFile => InReach(temporary))
  /\ \A p \in Launchers : InReach(launchers[p].known) /\ launchers[p].id <= Len(agents)

LEMMA InRoom ==
  ASSUME TypeInv
  PROVE  /\ IsFiniteSet(Opening) /\ Cardinality(Opening) \in Nat
         /\ Opening \subseteq UnderWay /\ Cardinality(Opening) <= Cardinality(UnderWay)
         /\ Cardinality(UnderWay) \in Nat
         /\ Len(agents) \in Nat /\ Len(agents) <= MaxAgents /\ DOMAIN agents = 1..Len(agents)
  <1>1. IsFiniteSet(UnderWay) /\ Opening \subseteq UnderWay
    BY DEF TypeInv, Room, Opening, UnderWay
  <1>2. IsFiniteSet(Opening) /\ Cardinality(Opening) <= Cardinality(UnderWay)
    BY <1>1, FS_Subset
  <1>3. Cardinality(Opening) \in Nat /\ Cardinality(UnderWay) \in Nat
    BY <1>1, <1>2, FS_CardinalityType
  <1>4. Len(agents) \in Nat /\ DOMAIN agents = 1..Len(agents)
    BY DEF TypeInv, LInv, Typed
  <1> QED
    BY <1>1, <1>2, <1>3, <1>4, LaunchingAssumption DEF TypeInv, Room

LEMMA FilesGrow ==
  ASSUME TypeInv, files' = files, LInv', Len(agents') >= Len(agents)
  PROVE  files' \in Seq(DOMAIN agents')
  <1>1. DOMAIN agents = 1..Len(agents) /\ DOMAIN agents' = 1..Len(agents')
        /\ Len(agents) \in Nat /\ Len(agents') \in Nat
    BY DEF TypeInv, LInv, Typed
  <1>2. DOMAIN agents \subseteq DOMAIN agents'
    BY <1>1
  <1> QED
    BY <1>2 DEF TypeInv

\* A launch under way that becomes new, with a terminal that was opened or none.
LEMMA StepFits ==
  ASSUME TypeInv, LInv', NEW p \in Launchers, NEW new \in LauncherType,
         launchers[p].pc # "ready", new.pc # "open",
         launchers' = [launchers EXCEPT ![p] = new],
         \/ Len(agents') = Len(agents)
         \/ Len(agents') = Len(agents) + 1 /\ launchers[p].pc = "open",
         UNCHANGED <<files, runtime>>,
         InReach(registry)', temporary' # NoFile => InReach(temporary)',
         new.id <= Len(agents'), \A name \in Names : new.known[name] <= Len(agents')
  PROVE  TypeInv'
  <1>1. /\ launchers'[p] = new
        /\ \A q \in Launchers : q # p => launchers'[q] = launchers[q]
    BY DEF TypeInv, LInv, Typed
  <1>2. Len(agents) \in Nat /\ Len(agents') \in Nat /\ Len(agents') >= Len(agents)
    BY DEF TypeInv, LInv, Typed
  <1>3. ASSUME NEW q \in Launchers
        PROVE  (InReach(launchers[q].known) /\ launchers[q].id <= Len(agents))'
    <2>1. CASE q = p
      BY <1>1, <2>1 DEF InReach
    <2>2. CASE q # p
      <3>1. PICK k \in LauncherType : k = launchers[q]
        BY DEF TypeInv, LInv, Typed
      <3>2. k.id \in Nat /\ \A name \in Names : k.known[name] \in Nat
        BY DEF LauncherType
      <3>3. k.id <= Len(agents) /\ \A name \in Names : k.known[name] <= Len(agents)
        BY <3>1 DEF TypeInv, InReach
      <3>4. k.id <= Len(agents') /\ \A name \in Names : k.known[name] <= Len(agents')
        BY <1>2, <3>2, <3>3
      <3> QED
        BY <1>1, <2>2, <3>1, <3>4 DEF InReach
    <2> QED
      BY <2>1, <2>2
  <1>4. IsFiniteSet(UnderWay')
    <2>1. UnderWay' \subseteq UnderWay
      BY <1>1 DEF UnderWay
    <2> QED
      BY <2>1, FS_Subset DEF TypeInv, Room
  <1>5. (Len(agents) + Cardinality(Opening) <= MaxAgents)'
    <2>1. Opening' = Opening \ {p}
      BY <1>1 DEF Opening
    <2>2. p \in Opening <=> launchers[p].pc = "open"
      BY DEF Opening
    <2>3. /\ IsFiniteSet(Opening') /\ Cardinality(Opening') \in Nat
          /\ Cardinality(Opening') = IF p \in Opening THEN Cardinality(Opening) - 1
                                                      ELSE Cardinality(Opening)
      BY <2>1, InRoom, FS_RemoveElement, FS_CardinalityType
    <2> QED
      BY <1>2, <2>2, <2>3, InRoom, LaunchingAssumption DEF TypeInv, Room
  <1>6. files' \in Seq(DOMAIN agents')
    BY <1>2, FilesGrow
  <1>7. runtime' \in Runtimes
    BY DEF TypeInv
  <1> QED
    BY <1>3, <1>4, <1>5, <1>6, <1>7 DEF TypeInv, Room

\* The steps of a launch that open no terminal and reach no further.
LEMMA LaunchStepFits ==
  ASSUME TypeInv, LInv', NEW p \in Launchers,
         OpenFails(p) \/ Reported(p) \/ Found(p) \/ GiveUp(p) \/ ReadRegistry(p)
         \/ WriteTemporary(p) \/ Rename(p) \/ WriteRow(p) \/ Brief(p) \/ Kill(p)
  PROVE  TypeInv'
  <1>1. PICK l \in LauncherType : l = launchers[p]
    BY DEF TypeInv, LInv, Typed
  <1>2. /\ l.id \in Nat /\ l.id <= Len(agents) /\ Len(agents) \in Nat
        /\ l.known \in [Names -> Nat] /\ \A name \in Names : l.known[name] <= Len(agents)
    BY <1>1, InRoom DEF TypeInv, InReach, LauncherType
  <1>3. LauncherBound(l)
    BY <1>1 DEF TypeInv, LInv
  <1>4. InReach(registry) /\ (temporary # NoFile => InReach(temporary))
    BY DEF TypeInv
  <1>5. NoTerminals \in [Names -> Nat] /\ \A name \in Names : NoTerminals[name] <= Len(agents)
    BY <1>2 DEF NoTerminals
  <1>6. Len(agents') = Len(agents)
    <2>1. CASE Brief(p)
      <3>1. DOMAIN agents' = DOMAIN agents
        BY <2>1 DEF Brief
      <3>2. /\ DOMAIN agents = 1..Len(agents) /\ DOMAIN agents' = 1..Len(agents')
            /\ Len(agents') \in Nat
        BY DEF TypeInv, LInv, Typed
      <3> QED
        BY <1>2, <3>1, <3>2
    <2>2. CASE ~Brief(p)
      BY <2>2 DEF OpenFails, Reported, Found, GiveUp, ReadRegistry, WriteTemporary, Rename,
         WriteRow, Kill
    <2> QED
      BY <2>1, <2>2
  <1>7. UNCHANGED <<files, runtime>> /\ l.pc # "ready"
    BY <1>1 DEF OpenFails, Reported, Found, GiveUp, ReadRegistry, WriteTemporary, Rename,
       WriteRow, Brief, Kill, At
  <1>8. ASSUME NEW new \in LauncherType, new.pc # "open",
               launchers' = [launchers EXCEPT ![p] = new],
               new.id <= Len(agents), \A name \in Names : new.known[name] <= Len(agents),
               InReach(registry)', temporary' # NoFile => InReach(temporary)'
        PROVE  TypeInv'
    BY <1>1, <1>6, <1>7, <1>8, StepFits
  <1>9. ASSUME UNCHANGED <<registry, temporary>>
        PROVE  InReach(registry)' /\ (temporary' # NoFile => InReach(temporary)')
    BY <1>4, <1>6, <1>9 DEF InReach
  <1>10. ASSUME NEW new \in {Ready, [Ready EXCEPT !.pc = "brief"]},
                launchers' = [launchers EXCEPT ![p] = new], UNCHANGED <<registry, temporary>>
         PROVE  TypeInv'
    <2>1. new \in LauncherType /\ new.pc # "open"
      BY ReadyBound DEF OnItsWay
    <2>2. new.id = 0 /\ new.known = NoTerminals
      BY DEF Ready
    <2>3. new.id <= Len(agents) /\ \A name \in Names : new.known[name] <= Len(agents)
      BY <1>2, <1>5, <2>2
    <2>4. InReach(registry)' /\ (temporary' # NoFile => InReach(temporary)')
      BY <1>9, <1>10
    <2> QED
      BY <1>8, <1>10, <2>1, <2>3, <2>4
  <1>11. CASE OpenFails(p) \/ GiveUp(p) \/ Brief(p) \/ Kill(p)
    BY <1>10, <1>11 DEF OpenFails, GiveUp, Brief, Kill, Leave
  <1>12. CASE WriteRow(p)
    BY <1>10, <1>12 DEF WriteRow, Written, Leave
  <1>13. CASE Reported(p) \/ Found(p)
    <2>0. PICK pc \in {"row", "read"} : \E id :
            /\ launchers' = [launchers EXCEPT ![p] = [l EXCEPT !.pc = pc, !.id = id]]
            /\ id = l.session \/ id \in l.since
      BY <1>1, <1>13 DEF Reported, Found, StartedSince, TypeInv, LInv, Typed
    <2>1. PICK id :
            /\ launchers' = [launchers EXCEPT ![p] = [l EXCEPT !.pc = pc, !.id = id]]
            /\ id = l.session \/ id \in l.since
      BY <2>0
    <2>2. l.pc \in Opened /\ l.since \subseteq DOMAIN agents
      BY <1>1, <1>3, <1>13 DEF Reported, Found, At, Opened, LauncherBound
    <2>3. id \in Nat /\ id <= Len(agents)
      <3>1. l.session \in DOMAIN agents
        BY <1>3, <2>2 DEF LauncherBound, Own
      <3> QED
        BY <2>1, <2>2, <3>1, InRoom
    <2> DEFINE new == [l EXCEPT !.pc = pc, !.id = id]
    <2>4. new \in LauncherType /\ new.pc # "open" /\ new.id = id /\ new.known = l.known
      BY <2>1, <2>3 DEF LauncherType
    <2>5. UNCHANGED <<registry, temporary>>
      BY <1>13 DEF Reported, Found
    <2> QED
      BY <1>2, <1>8, <1>9, <2>1, <2>3, <2>4, <2>5
  <1>14. CASE ReadRegistry(p)
    <2> DEFINE known == [registry EXCEPT ![l.name] = l.session]
               new == [l EXCEPT !.pc = "write", !.known = known]
    <2>1. launchers' = [launchers EXCEPT ![p] = new]
      BY <1>1, <1>14 DEF ReadRegistry, TypeInv, LInv, Typed
    <2>2. l.session \in Nat /\ l.session <= Len(agents)
      <3>1. l.session \in DOMAIN agents
        BY <1>1, <1>3, <1>14 DEF ReadRegistry, At, Opened, LauncherBound, Own
      <3> QED
        BY <3>1, InRoom
    <2>3. registry \in [Names -> Nat]
      BY DEF TypeInv, LInv, Typed
    <2>4. known \in [Names -> Nat] /\ \A name \in Names : known[name] <= Len(agents)
      BY <1>4, <2>2, <2>3 DEF InReach
    <2> HIDE DEF known
    <2>5. new \in LauncherType /\ new.pc # "open" /\ new.id = l.id /\ new.known = known
      BY <2>4 DEF LauncherType
    <2>6. UNCHANGED <<registry, temporary>>
      BY <1>14 DEF ReadRegistry
    <2> QED
      BY <1>2, <1>8, <1>9, <2>1, <2>4, <2>5, <2>6
  <1>15. CASE WriteTemporary(p)
    <2> DEFINE new == [l EXCEPT !.pc = "rename", !.known = NoTerminals]
    <2>1. launchers' = [launchers EXCEPT ![p] = new]
      BY <1>1, <1>15 DEF WriteTemporary, TypeInv, LInv, Typed
    <2>2. new \in LauncherType /\ new.pc # "open" /\ new.id = l.id /\ new.known = NoTerminals
      BY <1>5 DEF LauncherType
    <2>3. temporary' = l.known /\ registry' = registry
      BY <1>1, <1>15 DEF WriteTemporary
    <2>4. InReach(registry)' /\ InReach(temporary)'
      BY <1>2, <1>4, <1>6, <2>3 DEF InReach
    <2> QED
      BY <1>2, <1>5, <1>8, <2>1, <2>2, <2>4
  <1>16. CASE Rename(p) /\ temporary # NoFile
    <2> DEFINE new == [l EXCEPT !.pc = "row"]
    <2>1. launchers' = [launchers EXCEPT ![p] = new]
      BY <1>1, <1>16 DEF Rename, TypeInv, LInv, Typed
    <2>2. new \in LauncherType /\ new.pc # "open" /\ new.id = l.id /\ new.known = l.known
      BY DEF LauncherType
    <2>3. registry' = temporary /\ temporary' = NoFile
      BY <1>16 DEF Rename
    <2>4. InReach(registry)'
      BY <1>4, <1>6, <1>16, <2>3 DEF InReach
    <2> QED
      BY <1>2, <1>8, <2>1, <2>2, <2>3, <2>4
  <1>17. CASE Rename(p) /\ temporary = NoFile
    BY <1>10, <1>17 DEF Rename, Leave
  <1> QED
    BY <1>11, <1>12, <1>13, <1>14, <1>15, <1>16, <1>17

LEMMA OpenHasRoom ==
  ASSUME TypeInv, LInv', NEW p \in Launchers, Open(p)
  PROVE  TypeInv'
  <1>1. PICK l \in LauncherType : l = launchers[p]
    BY DEF TypeInv, LInv, Typed
  <1>2. PICK session : session = Len(agents) + 1
    OBVIOUS
  <1>3. /\ l.id \in Nat /\ l.id <= Len(agents) /\ Len(agents) \in Nat
        /\ l.known \in [Names -> Nat] /\ \A name \in Names : l.known[name] <= Len(agents)
    BY <1>1, InRoom DEF TypeInv, InReach, LauncherType
  <1>4. Len(agents') = session
    BY <1>2 DEF Open, TypeInv, LInv, Typed
  <1>5. PICK new : /\ \/ new = [l EXCEPT !.pc = "read", !.session = session, !.id = session]
                      \/ new = [l EXCEPT !.pc = "await", !.session = session]
                   /\ launchers' = [launchers EXCEPT ![p] = new]
    BY <1>1, <1>2 DEF Open
  <1>6. /\ new \in LauncherType /\ new.pc # "open" /\ new.known = l.known
        /\ new.id \in {session, l.id}
    <2>1. session \in Nat
      BY <1>2, <1>3
    <2>2. [l EXCEPT !.pc = "read", !.session = session, !.id = session] \in LauncherType
      BY <2>1 DEF LauncherType
    <2>3. [l EXCEPT !.pc = "await", !.session = session] \in LauncherType
      BY <2>1 DEF LauncherType
    <2> QED
      BY <1>5, <2>2, <2>3 DEF LauncherType
  <1>7. new.id <= Len(agents') /\ \A name \in Names : new.known[name] <= Len(agents')
    BY <1>2, <1>3, <1>4, <1>6
  <1>8. UNCHANGED <<runtime, files, registry, temporary>> /\ l.pc = "open"
    BY <1>1 DEF Open, At
  <1>9. registry \in [Names -> Nat] /\ temporary \in [Names -> Nat] \cup {NoFile}
    BY DEF TypeInv, LInv, Typed
  <1>10. InReach(registry)' /\ (temporary' # NoFile => InReach(temporary)')
    BY <1>2, <1>3, <1>4, <1>8, <1>9 DEF TypeInv, InReach
  <1> QED
    BY <1>1, <1>2, <1>4, <1>5, <1>6, <1>7, <1>8, <1>10, StepFits

LEMMA BeginHasRoom ==
  ASSUME TypeInv, LInv', NEW p \in Launchers, NEW name \in Names, Begin(p, name)
  PROVE  TypeInv'
  <1>1. UNCHANGED <<runtime, agents, files, registry, temporary>> /\ launchers[p].pc = "ready"
    BY DEF Begin, At
  <1>2. Len(agents) \in Nat
    BY InRoom
  <1>3. ASSUME NEW q \in Launchers \ {p}
        PROVE  /\ launchers'[q].pc = launchers[q].pc /\ launchers'[q].id = launchers[q].id
               /\ launchers'[q].known = launchers[q].known
    <2>1. PICK k \in LauncherType : k = launchers[q]
      BY DEF TypeInv, LInv, Typed
    <2>2. PICK new : launchers' = [r \in Launchers |->
                       IF r = p THEN new ELSE [launchers[r] EXCEPT !.alone = FALSE]]
      BY DEF Begin
    <2>3. launchers'[q] = [k EXCEPT !.alone = FALSE]
      BY <2>1, <2>2
    <2> QED
      BY <2>1, <2>3 DEF LauncherType
  <1>4. launchers'[p].pc = "open" /\ launchers'[p].id = 0 /\ launchers'[p].known = NoTerminals
    <2>1. PICK alone : alone = ({q \in Launchers : ~At(q, "ready")} = {})
      OBVIOUS
    <2>2. PICK settings :
            launchers'[p] = [Ready EXCEPT !.pc = "open", !.name = name,
                               !.agent = settings[1], !.flags = settings[2], !.alone = alone]
      BY <2>1 DEF Begin
    <2> QED
      BY <2>2 DEF Ready
  <1>5. ASSUME NEW q \in Launchers
        PROVE  (InReach(launchers[q].known) /\ launchers[q].id <= Len(agents))'
    <2>1. CASE q = p
      BY <1>1, <1>2, <1>4, <2>1 DEF InReach, NoTerminals
    <2>2. CASE q # p
      BY <1>1, <1>3, <2>2 DEF TypeInv, InReach
    <2> QED
      BY <2>1, <2>2
  <1>6. Opening' = Opening \cup {p} /\ UnderWay' = UnderWay \cup {p}
    BY <1>3, <1>4 DEF Opening, UnderWay
  <1>7. Len(agents) + Cardinality(UnderWay) < MaxAgents
    BY DEF Begin, UnderWay, At
  <1>8. Room'
    <2>3. IsFiniteSet(UnderWay) /\ IsFiniteSet(Opening) /\ Cardinality(Opening) \in Nat
      BY InRoom DEF TypeInv, Room
    <2>1. IsFiniteSet(UnderWay') /\ Cardinality(Opening') <= Cardinality(Opening) + 1
      <3>1. IsFiniteSet(UnderWay')
        BY <1>6, <2>3, FS_AddElement
      <3>2. Cardinality(Opening') \in {Cardinality(Opening), Cardinality(Opening) + 1}
        BY <1>6, <2>3, FS_AddElement
      <3> QED
        BY <2>3, <3>1, <3>2
    <2>2. Cardinality(Opening') \in Nat
      BY <1>6, InRoom, FS_AddElement, FS_CardinalityType
    <2> QED
      BY <1>1, <1>7, <2>1, <2>2, InRoom, LaunchingAssumption DEF Room
  <1> QED
    BY <1>1, <1>5, <1>8 DEF TypeInv, InReach

LEMMA ElsewhereHasRoom ==
  ASSUME TypeInv, LInv', NEW dir \in OtherDirs, NEW agent \in AgentKinds,
         StartElsewhere(dir, agent)
  PROVE  TypeInv'
  <1>1. UNCHANGED <<runtime, files, registry, temporary, launchers>>
    BY DEF StartElsewhere
  <1>2. Len(agents') = Len(agents) + 1 /\ Len(agents) \in Nat
    BY DEF StartElsewhere, TypeInv, LInv, Typed
  <1>3. Len(agents) + Cardinality(UnderWay) < MaxAgents
    BY DEF StartElsewhere, UnderWay, At
  <1>4. Opening' = Opening /\ UnderWay' = UnderWay
    BY <1>1 DEF Opening, UnderWay
  <1>5. Room'
    BY <1>2, <1>3, <1>4, InRoom, LaunchingAssumption DEF TypeInv, Room
  <1>6. ASSUME NEW terminals \in [Names -> Nat], InReach(terminals)
        PROVE  \A name \in Names : terminals[name] <= Len(agents')
    BY <1>2, <1>6 DEF InReach
  <1>7. registry \in [Names -> Nat] /\ temporary \in [Names -> Nat] \cup {NoFile}
    BY DEF TypeInv, LInv, Typed
  <1>8. InReach(registry)' /\ (temporary' # NoFile => InReach(temporary)')
    BY <1>1, <1>6, <1>7 DEF TypeInv, InReach
  <1>9. ASSUME NEW q \in Launchers
        PROVE  (InReach(launchers[q].known) /\ launchers[q].id <= Len(agents))'
    <2>1. PICK k \in LauncherType : k = launchers[q]
      BY DEF TypeInv, LInv, Typed
    <2>2. k.id \in Nat /\ k.known \in [Names -> Nat]
      BY DEF LauncherType
    <2>3. k.id <= Len(agents) /\ InReach(k.known)
      BY <2>1 DEF TypeInv
    <2>4. k.id <= Len(agents') /\ \A name \in Names : k.known[name] <= Len(agents')
      BY <1>2, <1>6, <2>2, <2>3
    <2> QED
      BY <1>1, <2>1, <2>4 DEF InReach
  <1>10. files' \in Seq(DOMAIN agents')
    BY <1>1, <1>2, FilesGrow
  <1> QED
    BY <1>1, <1>5, <1>8, <1>9, <1>10 DEF TypeInv

LEMMA WriteFitsTypes ==
  ASSUME TypeInv, LInv', NEW s \in DOMAIN agents, Write(s)
  PROVE  TypeInv'
  <1>1. UNCHANGED <<runtime, agents, registry, temporary, rows>>
    BY DEF Write
  <1>2. ASSUME NEW q \in Launchers
        PROVE  /\ launchers'[q].pc = launchers[q].pc /\ launchers'[q].id = launchers[q].id
               /\ launchers'[q].known = launchers[q].known
    <2>1. PICK k \in LauncherType : k = launchers[q]
      BY DEF TypeInv, LInv, Typed
    <2>2. launchers'[q] \in {k, [k EXCEPT !.since = @ \cup {s}]}
      BY <2>1 DEF Write
    <2> QED
      BY <2>1, <2>2 DEF LauncherType
  <1>3. Opening' = Opening /\ UnderWay' = UnderWay
    BY <1>2 DEF Opening, UnderWay
  <1>4. files' \in Seq(DOMAIN agents)
    <2>1. files \in Seq(DOMAIN agents)
      BY DEF TypeInv
    <2>2. CASE files' = Append(files, s)
      BY <2>1, <2>2
    <2>3. ASSUME NEW i \in DOMAIN files, files' = Append(RemoveAt(files, i), s)
          PROVE  files' \in Seq(DOMAIN agents)
      <3>1. i \in 1..Len(files) /\ Len(files) \in Nat
        BY <2>1
      <3>2. SubSeq(files, 1, i - 1) \in Seq(DOMAIN agents)
        BY <2>1, <3>1
      <3>3. SubSeq(files, i + 1, Len(files)) \in Seq(DOMAIN agents)
        BY <2>1, <3>1
      <3>4. RemoveAt(files, i) \in Seq(DOMAIN agents)
        BY <3>2, <3>3 DEF RemoveAt
      <3> QED
        BY <2>3, <3>4
    <2> QED
      BY <2>2, <2>3 DEF Write
  <1>5. Room'
    BY <1>1, <1>3 DEF TypeInv, Room
  <1>6. \A q \in Launchers : (InReach(launchers[q].known) /\ launchers[q].id <= Len(agents))'
    BY <1>1, <1>2 DEF TypeInv, InReach
  <1> QED
    BY <1>1, <1>4, <1>5, <1>6 DEF TypeInv, InReach

LEMMA TypesHold == TypeInv /\ [Next]_vars => TypeInv'
  <1> SUFFICES ASSUME TypeInv, [Next]_vars PROVE TypeInv'
    OBVIOUS
  <1>1. LInv'
    BY BoundsHold DEF TypeInv
  <1>2. CASE UNCHANGED vars
    BY <1>1, <1>2 DEF vars, TypeInv, Room, Opening, UnderWay, InReach
  <1> QED
    BY <1>1, <1>2, BeginHasRoom, OpenHasRoom, LaunchStepFits, WriteFitsTypes, ElsewhereHasRoom
    DEF Next

LEMMA InitTypes == Init => TypeInv
  <1> SUFFICES ASSUME Init PROVE TypeInv
    OBVIOUS
  <1>1. LInv
    BY InitBound
  <1>2. /\ agents = <<>> /\ files = <<>> /\ runtime \in Runtimes
        /\ registry = NoTerminals /\ temporary = NoFile
        /\ \A p \in Launchers : launchers[p] = Ready
    BY DEF Init
  <1>3. Ready.pc = "ready" /\ Ready.id = 0 /\ Ready.known = NoTerminals
    BY DEF Ready
  <1>4. Opening = {} /\ UnderWay = {}
    BY <1>2, <1>3 DEF Opening, UnderWay
  <1>5. Room
    BY <1>2, <1>4, FS_EmptySet, LaunchingAssumption DEF Room
  <1>6. InReach(NoTerminals)
    BY <1>2 DEF InReach, NoTerminals
  <1> QED
    BY <1>1, <1>2, <1>3, <1>5, <1>6 DEF TypeInv

\* Types, and that nothing is started beyond MaxAgents: every terminal in the
\* registry, its temporary file and the rows is of an agent there is.
THEOREM TypeCorrect == Spec => []TypeOK
  <1>1. TypeInv => TypeOK
    <2> SUFFICES ASSUME TypeInv PROVE TypeOK
      OBVIOUS
    <2>1. Len(agents) \in Nat /\ Len(agents) <= MaxAgents /\ DOMAIN agents \subseteq Id
      BY InRoom, LaunchingAssumption DEF Id
    <2>2. AgentType = AgentState
      BY LaunchableAreAgents DEF AgentType, AgentState
    <2>3. \A t \in [Names -> Nat] : InReach(t) => t \in Registry
      BY <2>1, LaunchingAssumption DEF InReach, Registry
    <2>4. registry \in Registry /\ temporary \in Registry \cup {NoFile}
      BY <2>3 DEF TypeInv, LInv, Typed
    <2>5. ASSUME NEW r \in DOMAIN rows PROVE rows[r] \in Row
      <3>1. rows[r] \in RowType /\ rows[r].id \in Id /\ rows[r].session \in Id
        BY <2>1, RowFields DEF TypeInv, LInv, RowsBound, Own
      <3> QED
        BY <3>1 DEF RowType, Row
    <2>6. rows \in Seq(Row)
      <3>1. rows \in Seq(RowType)
        BY DEF TypeInv, LInv, Typed
      <3> QED
        BY <2>5, <3>1
    <2>7. ASSUME NEW p \in Launchers PROVE launchers[p] \in Launcher
      <3>1. PICK l \in LauncherType : l = launchers[p]
        BY DEF TypeInv, LInv, Typed
      <3>2. LauncherBound(l) /\ l.id <= Len(agents) /\ InReach(l.known)
        BY <3>1 DEF TypeInv, LInv
      <3>3. l.since \subseteq Id /\ l.session \in {0} \cup DOMAIN agents
        BY <2>1, <3>2 DEF LauncherBound, Own
      <3>4. l.id \in Nat /\ l.known \in [Names -> Nat]
        BY DEF LauncherType
      <3>5. l.id \in 0..MaxAgents /\ l.session \in 0..MaxAgents /\ l.known \in Registry
        BY <2>1, <2>3, <3>2, <3>3, <3>4, LaunchingAssumption DEF Id
      <3> QED
        BY <3>1, <3>3, <3>5, LaunchableAreAgents DEF LauncherType, Launcher
    <2>8. launchers \in [Launchers -> Launcher]
      BY <2>7 DEF TypeInv, LInv, Typed
    <2> QED
      BY <2>1, <2>2, <2>4, <2>6, <2>8 DEF TypeInv, LInv, Typed, TypeOK
  <1> QED
    BY InitTypes, TypesHold, <1>1, PTL DEF Spec

-----------------------------------------------------------------------------
(* What the registry keeps *)

\* The name of a live session that was launched alone leads to it or to a later
\* one, under either runtime, whatever was killed between two steps of remember
\* and whichever launches overlap.
THEOREM SessionsAreKnown == Spec => []SessionsStayKnown
  <1>1. LInv => SessionsStayKnown
    <2> SUFFICES ASSUME LInv, NEW r \in DOMAIN rows, rows[r].alone
                 PROVE  Target(rows[r].name) >= rows[r].session
      BY DEF SessionsStayKnown
    <2>1. PICK name \in Names, session \in Nat :
            name = rows[r].name /\ session = rows[r].session
      BY RowFields
    <2>2. session \in DOMAIN agents /\ agents[session].name = name
      BY <2>1 DEF LInv, RowsBound, Own
    <2>3. CASE runtime = "orca"
      <3>1. registry[name] \in Nat
        BY DEF LInv, Typed
      <3>2. session <= registry[name]
        BY <2>1, <2>3 DEF LInv, RowsBound
      <3>3. Target(name) = registry[name]
        BY <2>3 DEF Target
      <3> QED
        BY <2>1, <3>1, <3>2, <3>3
    <2>4. CASE runtime = "herdr"
      <3> DEFINE named == {s \in DOMAIN agents : agents[s].name = name}
      <3>1. DOMAIN agents = 1..Len(agents) /\ Len(agents) \in Nat
        BY DEF LInv, Typed
      <3>2. named \in SUBSET (1..Len(agents)) /\ session \in named
        BY <2>2, <3>1
      <3>3. \E m \in named : \A t \in named : t <= m
        BY <3>1, <3>2, GreatestExists
      <3>4. Target(name) = CHOOSE m \in named : \A t \in named : t <= m
        BY <2>4, <3>2 DEF Target
      <3>5. Target(name) \in named /\ \A t \in named : t <= Target(name)
        BY <3>3, <3>4
      <3>6. Target(name) \in Nat
        BY <3>1, <3>2, <3>5
      <3> QED
        BY <2>1, <3>2, <3>5, <3>6
    <2> QED
      BY <2>3, <2>4 DEF LInv, Typed
  <1> QED
    BY InitBound, BoundsHold, <1>1, PTL DEF Spec

-----------------------------------------------------------------------------
(* Whose ids the rows have *)

\* What a step may do to the session a launch started.
SessionsKeep ==
  \A q \in Launchers :
    \/ launchers'[q].session \in {0, launchers[q].session}
    \/ launchers'[q].session \notin DOMAIN agents

LEMMA EndKeepsSessions ==
  ASSUME LInv, NEW p \in Launchers,
         NEW ready \in {Ready, [Ready EXCEPT !.pc = "brief"]},
         launchers' = [launchers EXCEPT ![p] = ready]
  PROVE  SessionsKeep
  <1>1. ready.session = 0
    BY ReadyBound
  <1>2. \A q \in Launchers : launchers'[q] = launchers[q] \/ launchers'[q] = ready
    BY DEF LInv, Typed
  <1> QED
    BY <1>1, <1>2 DEF SessionsKeep

LEMMA StepKeepsSessions ==
  ASSUME LInv, NEW p \in Launchers, NEW new, new.session = launchers[p].session,
         launchers' = [launchers EXCEPT ![p] = new]
  PROVE  SessionsKeep
  BY DEF LInv, Typed, SessionsKeep

LEMMA LaunchKeepsSessions ==
  ASSUME LInv, NEW p \in Launchers,
         \/ \E name \in Names : Begin(p, name)
         \/ Open(p) \/ OpenFails(p) \/ Reported(p) \/ Found(p) \/ GiveUp(p)
         \/ ReadRegistry(p) \/ WriteTemporary(p) \/ Rename(p) \/ WriteRow(p) \/ Brief(p)
         \/ Kill(p)
  PROVE  SessionsKeep
  <1>1. PICK l \in LauncherType : l = launchers[p]
    BY DEF LInv, Typed
  <1>2. CASE OpenFails(p) \/ GiveUp(p) \/ Brief(p) \/ Kill(p)
    BY <1>2, EndKeepsSessions DEF OpenFails, GiveUp, Brief, Kill, Leave
  <1>3. CASE Leave(p)
    BY <1>3, EndKeepsSessions DEF Leave
  <1>4. CASE WriteRow(p)
    <2>1. Written(p) => \E ready \in {Ready, [Ready EXCEPT !.pc = "brief"]} :
                          launchers' = [launchers EXCEPT ![p] = ready]
      BY DEF Written
    <2> QED
      BY <1>3, <1>4, <2>1, EndKeepsSessions DEF WriteRow
  <1>5. CASE Reported(p) \/ Found(p)
    <2>1. PICK pc, id : launchers' = [launchers EXCEPT ![p].pc = pc, ![p].id = id]
      BY <1>5 DEF Reported, Found
    <2>2. launchers' = [launchers EXCEPT ![p] = [l EXCEPT !.pc = pc, !.id = id]]
      BY <1>1, <2>1
    <2>3. [l EXCEPT !.pc = pc, !.id = id].session = l.session
      BY DEF LauncherType
    <2> QED
      BY <1>1, <2>2, <2>3, StepKeepsSessions
  <1>6. CASE ReadRegistry(p) \/ WriteTemporary(p)
    <2>1. PICK pc, known : launchers' = [launchers EXCEPT ![p].pc = pc, ![p].known = known]
      BY <1>6 DEF ReadRegistry, WriteTemporary
    <2>2. launchers' = [launchers EXCEPT ![p] = [l EXCEPT !.pc = pc, !.known = known]]
      BY <1>1, <2>1
    <2>3. [l EXCEPT !.pc = pc, !.known = known].session = l.session
      BY DEF LauncherType
    <2> QED
      BY <1>1, <2>2, <2>3, StepKeepsSessions
  <1>7. CASE Rename(p)
    <2>1. CASE launchers' = [launchers EXCEPT ![p].pc = "row"]
      <3>1. launchers' = [launchers EXCEPT ![p] = [l EXCEPT !.pc = "row"]]
        BY <1>1, <2>1
      <3>2. [l EXCEPT !.pc = "row"].session = l.session
        BY DEF LauncherType
      <3> QED
        BY <1>1, <3>1, <3>2, StepKeepsSessions
    <2> QED
      BY <1>3, <1>7, <2>1 DEF Rename
  <1>8. CASE Open(p)
    <2>1. PICK session : session = Len(agents) + 1
      OBVIOUS
    <2>2. PICK new : /\ new \in {[l EXCEPT !.pc = "read", !.session = session, !.id = session],
                                 [l EXCEPT !.pc = "await", !.session = session]}
                     /\ launchers' = [launchers EXCEPT ![p] = new]
      BY <1>1, <1>8, <2>1 DEF Open
    <2>3. new.session = session
      BY <2>2 DEF LauncherType
    <2>4. session \notin DOMAIN agents
      BY <2>1 DEF LInv, Typed
    <2> QED
      BY <2>2, <2>3, <2>4 DEF LInv, Typed, SessionsKeep
  <1>9. CASE \E name \in Names : Begin(p, name)
    <2> DEFINE alone == {q \in Launchers : ~At(q, "ready")} = {}
    <2>0. PICK name \in Names : Begin(p, name)
      BY <1>9
    <2>1. PICK settings \in Launches[Kind(name)] :
            launchers' = [q \in Launchers |->
              IF q = p
              THEN [Ready EXCEPT !.pc = "open", !.name = name, !.agent = settings[1],
                      !.flags = settings[2], !.alone = alone]
              ELSE [launchers[q] EXCEPT !.alone = FALSE]]
      BY <2>0 DEF Begin
    <2>2. [Ready EXCEPT !.pc = "open", !.name = name, !.agent = settings[1],
             !.flags = settings[2], !.alone = alone].session = 0
      BY DEF Ready
    <2>3. \A k \in LauncherType : [k EXCEPT !.alone = FALSE].session = k.session
      BY DEF LauncherType
    <2>4. \A q \in Launchers : launchers[q] \in LauncherType
      BY DEF LInv, Typed
    <2>5. \A q \in Launchers : launchers'[q].session \in {0, launchers[q].session}
      BY <2>1, <2>2, <2>3, <2>4
    <2> QED
      BY <2>5 DEF SessionsKeep
  <1> QED
    BY <1>2, <1>4, <1>5, <1>6, <1>7, <1>8, <1>9

LEMMA OrphansGrow ==
  ASSUME AgentsKeep, SessionsKeep,
         \A r \in DOMAIN rows' :
           \/ \E s \in DOMAIN rows : rows'[r].session = rows[s].session
           \/ \E p \in Launchers : rows'[r].session = launchers[p].session,
         0 \notin DOMAIN agents
  PROVE  Orphans \subseteq Orphans'
  <1> SUFFICES ASSUME NEW s \in Orphans PROVE s \in Orphans'
    OBVIOUS
  <1>1. /\ s \in DOMAIN agents /\ agents[s].name # None
        /\ \A r \in DOMAIN rows : rows[r].session # s
        /\ \A p \in Launchers : launchers[p].session # s
    BY DEF Orphans
  <1>2. s \in DOMAIN agents' /\ agents'[s].name # None
    BY <1>1 DEF AgentsKeep
  <1>3. \A r \in DOMAIN rows' : rows'[r].session # s
    BY <1>1
  <1>4. \A p \in Launchers : launchers'[p].session # s
    BY <1>1 DEF SessionsKeep
  <1> QED
    BY <1>2, <1>3, <1>4 DEF Orphans

\* The ids taken are as many as the sessions that have a row, which are all but
\* the one just started: the only one left for it is its own.
LEMMA OneIdIsLeft ==
  ASSUME LInv, NEW p \in Launchers, launchers[p].pc = "row", launchers[p].alone,
         Orphans = {}, \A r \in DOMAIN rows : rows[r].id # launchers[p].id
  PROVE  launchers[p].id = launchers[p].session
  <1>1. PICK id \in Nat, session \in Nat :
          id = launchers[p].id /\ session = launchers[p].session
    <2>1. launchers[p] \in LauncherType
      BY DEF LInv, Typed
    <2> QED
      BY <2>1 DEF LauncherType
  <1>2. LauncherBound(launchers[p])
    BY DEF LInv
  <1>3. /\ session \in Own /\ id \in Own
        /\ \A r \in DOMAIN rows : rows[r].session # session /\ rows[r].id # session
    BY <1>1, <1>2 DEF LauncherBound, Opened, Known
  <1> DEFINE Others == Own \ {session}
             IdOf == [r \in DOMAIN rows |-> rows[r].id]
             SessionOf == [r \in DOMAIN rows |-> rows[r].session]
  <1>4. ASSUME NEW s \in Others
        PROVE  \E r \in DOMAIN rows : rows[r].session = s
    <2>1. s \in DOMAIN agents /\ agents[s].name # None
      BY DEF LInv, AgentsNamed, Own
    <2>2. ASSUME NEW q \in Launchers
          PROVE  launchers[q].session # s
      <3>1. CASE q = p
        BY <1>1, <3>1
      <3>2. CASE q # p
        <4>1. launchers[q].pc = "ready"
          BY <3>2 DEF LInv, AloneIsAlone, OnItsWay, Opened
        <4>2. LauncherBound(launchers[q])
          BY DEF LInv
        <4>3. launchers[q].session = 0
          BY <4>1, <4>2 DEF LauncherBound, Opened
        <4>4. s # 0
          BY <2>1, OwnAreAgents
        <4> QED
          BY <4>3, <4>4
      <3> QED
        BY <3>1, <3>2
    <2> QED
      BY <2>1, <2>2 DEF Orphans
  <1>5. \A r \in DOMAIN rows : rows[r].session \in Others /\ rows[r].id \in Others
    BY <1>3 DEF LInv, RowsBound
  <1>6. IdOf \in Injection(DOMAIN rows, Others)
    <2>1. IdOf \in [DOMAIN rows -> Others]
      BY <1>5
    <2>2. \A r, s \in DOMAIN rows : IdOf[r] = IdOf[s] => r = s
      BY DEF LInv, RowsBound
    <2> QED
      BY <2>1, <2>2 DEF Injection, IsInjective
  <1>7. SessionOf \in Surjection(DOMAIN rows, Others)
    <2>1. SessionOf \in [DOMAIN rows -> Others]
      BY <1>5
    <2>2. \A s \in Others : \E r \in DOMAIN rows : SessionOf[r] = s
      BY <1>4
    <2> QED
      BY <2>1, <2>2 DEF Surjection
  <1>8. IsFiniteSet(DOMAIN rows) /\ IsFiniteSet(Others)
    <2>1. /\ DOMAIN rows = 1..Len(rows) /\ Len(rows) \in Nat
          /\ DOMAIN agents = 1..Len(agents) /\ Len(agents) \in Nat
      BY DEF LInv, Typed
    <2>2. IsFiniteSet(DOMAIN rows) /\ IsFiniteSet(DOMAIN agents)
      BY <2>1, FS_Interval
    <2>3. Others \in SUBSET (DOMAIN agents)
      BY DEF Own
    <2> QED
      BY <2>2, <2>3, FS_Subset
  <1> HIDE DEF Others, IdOf, SessionOf
  <1>9. Cardinality(DOMAIN rows) \in Nat /\ Cardinality(Others) \in Nat
    BY <1>8, FS_CardinalityType
  <1>10. Cardinality(Others) <= Cardinality(DOMAIN rows)
    BY <1>7, <1>8, FS_Surjection
  <1>11. Cardinality(DOMAIN rows) <= Cardinality(Others)
    BY <1>6, <1>8, FS_Injection
  <1>12. Cardinality(DOMAIN rows) = Cardinality(Others)
    BY <1>9, <1>10, <1>11
  <1>13. IdOf \in Surjection(DOMAIN rows, Others)
    BY <1>6, <1>8, <1>12, FS_Injection
  <1>14. id \notin Others
    <2>1. SUFFICES ASSUME id \in Others PROVE FALSE
      OBVIOUS
    <2>2. PICK r \in DOMAIN rows : IdOf[r] = id
      BY <1>13, <2>1 DEF Surjection
    <2> QED
      BY <1>1, <2>2 DEF IdOf
  <1> QED
    BY <1>1, <1>3, <1>14 DEF Others

LEMMA OtherStepsKeep ==
  ASSUME LInv, [Next]_vars
  PROVE  AgentsKeep /\ SessionsKeep /\ (rows' = rows \/ \E p \in Launchers : WriteRow(p))
  <1>1. ASSUME NEW p \in Launchers,
               \/ \E name \in Names : Begin(p, name)
               \/ OpenFails(p) \/ Reported(p) \/ Found(p) \/ GiveUp(p)
               \/ ReadRegistry(p) \/ WriteTemporary(p) \/ Rename(p) \/ WriteRow(p)
               \/ Kill(p)
        PROVE  agents' = agents /\ SessionsKeep /\ (rows' = rows \/ WriteRow(p))
    <2>1. agents' = agents /\ (rows' = rows \/ WriteRow(p))
      BY <1>1 DEF Begin, OpenFails, Reported, Found, GiveUp, ReadRegistry,
         WriteTemporary, Rename, WriteRow, Kill
    <2> QED
      BY <1>1, <2>1, LaunchKeepsSessions
  <1>2. ASSUME NEW p \in Launchers, Open(p)
        PROVE  AgentsKeep /\ SessionsKeep /\ rows' = rows
    <2>1. agents \in Seq(AgentType) /\ rows' = rows
      BY <1>2 DEF LInv, Typed, Open
    <2>2. PICK a : agents' = Append(agents, a)
      BY <1>2 DEF Open
    <2>3. AgentsKeep
      BY <2>1, <2>2 DEF AgentsKeep
    <2> QED
      BY <1>2, <2>1, <2>3, LaunchKeepsSessions
  <1>3. ASSUME NEW p \in Launchers, Brief(p)
        PROVE  AgentsKeep /\ SessionsKeep /\ rows' = rows
    <2>1. PICK target : agents' = [s \in DOMAIN agents |->
            IF s = target THEN [agents[s] EXCEPT !.briefed = TRUE] ELSE agents[s]]
      BY <1>3 DEF Brief
    <2>2. \A a \in AgentType : /\ [a EXCEPT !.briefed = TRUE].name = a.name
                               /\ [a EXCEPT !.briefed = TRUE].dir = a.dir
      BY DEF AgentType
    <2>3. \A s \in DOMAIN agents : agents[s] \in AgentType
      BY DEF LInv, Typed
    <2>4. AgentsKeep
      BY <2>1, <2>2, <2>3 DEF AgentsKeep
    <2> QED
      BY <1>3, <2>4, LaunchKeepsSessions DEF Brief
  <1>4. ASSUME NEW s \in DOMAIN agents, Write(s)
        PROVE  agents' = agents /\ SessionsKeep /\ rows' = rows
    <2>1. \A q \in Launchers :
            launchers'[q] \in {launchers[q], [launchers[q] EXCEPT !.since = @ \cup {s}]}
      BY <1>4 DEF Write
    <2>2. \A l \in LauncherType : [l EXCEPT !.since = @ \cup {s}].session = l.session
      BY DEF LauncherType
    <2>3. \A q \in Launchers : launchers[q] \in LauncherType
      BY DEF LInv, Typed
    <2>4. \A q \in Launchers : launchers'[q].session = launchers[q].session
      BY <2>1, <2>2, <2>3
    <2> QED
      BY <1>4, <2>4 DEF Write, SessionsKeep
  <1>5. ASSUME NEW dir, NEW agent, StartElsewhere(dir, agent)
        PROVE  AgentsKeep /\ SessionsKeep /\ rows' = rows
    <2>1. agents \in Seq(AgentType)
      BY DEF LInv, Typed
    <2>2. PICK a : agents' = Append(agents, a)
      BY <1>5 DEF StartElsewhere
    <2>3. AgentsKeep
      BY <2>1, <2>2 DEF AgentsKeep
    <2> QED
      BY <1>5, <2>3 DEF StartElsewhere, SessionsKeep
  <1>6. CASE UNCHANGED vars
    BY <1>6 DEF vars, AgentsKeep, SessionsKeep
  <1>7. agents' = agents => AgentsKeep
    BY DEF AgentsKeep
  <1> QED
    BY <1>1, <1>2, <1>3, <1>4, <1>5, <1>6, <1>7 DEF Next

LEMMA IdsStayOwn == LInv /\ IdsAreOwn /\ [Next]_vars => IdsAreOwn'
  <1> SUFFICES ASSUME LInv, IdsAreOwn, [Next]_vars, Orphans' = {},
                      NEW r \in DOMAIN rows', rows'[r].alone
               PROVE  rows'[r].id = rows'[r].session
    BY DEF IdsAreOwn
  <1>1. AgentsKeep /\ SessionsKeep
    BY OtherStepsKeep
  <1>2. 0 \notin DOMAIN agents
    BY OwnAreAgents
  <1>3. CASE rows' = rows
    <2>1. Orphans \subseteq Orphans'
      BY <1>1, <1>2, <1>3, OrphansGrow
    <2> QED
      BY <1>3, <2>1 DEF IdsAreOwn
  <1>4. ASSUME NEW p \in Launchers, WriteRow(p), rows' # rows
        PROVE  rows'[r].id = rows'[r].session
    <2>1. PICK l \in LauncherType : l = launchers[p]
      BY DEF LInv, Typed
    <2>2. /\ l.pc = "row" /\ \A s \in DOMAIN rows : rows[s].id # l.id
          /\ rows' = Append(StopNamed(l.name), RowOf(p))
      BY <1>4, <2>1 DEF WriteRow, At
    <2>3. PICK row \in RowType : row = RowOf(p)
      BY <2>1 DEF RowOf, RowType, LauncherType
    <2>4. row.id = l.id /\ row.session = l.session /\ row.alone = l.alone
      BY <2>1, <2>3 DEF RowOf
    <2>5. PICK n : n = Len(rows) + 1
      OBVIOUS
    <2>6. /\ DOMAIN rows' = DOMAIN rows \cup {n} /\ rows'[n] = row
          /\ \A s \in DOMAIN rows :
               /\ rows'[s].id = rows[s].id /\ rows'[s].session = rows[s].session
               /\ rows'[s].alone = rows[s].alone
      BY <2>2, <2>3, <2>5, RowsGrow
    <2>7. Orphans \subseteq Orphans'
      BY <1>1, <1>2, <2>1, <2>4, <2>6, OrphansGrow
    <2>8. CASE r = n
      BY <2>1, <2>2, <2>4, <2>6, <2>7, <2>8, OneIdIsLeft
    <2>9. CASE r \in DOMAIN rows
      BY <2>6, <2>7, <2>9 DEF IdsAreOwn
    <2> QED
      BY <2>6, <2>8, <2>9
  <1> QED
    BY <1>3, <1>4, OtherStepsKeep

\* A launch that had no other beside it is recorded under its own agent's id,
\* though the transcript written last need not be its agent's: the unique id
\* turns away every other one, as long as no agent is left without a row.
THEOREM IdsAreTheirOwn == Spec => []IdsAreOwn
  <1>1. Init => IdsAreOwn
    BY DEF Init, IdsAreOwn
  <1> QED
    BY <1>1, InitBound, BoundsHold, IdsStayOwn, PTL DEF Spec
=============================================================================
