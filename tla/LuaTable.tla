------------------------------- MODULE LuaTable -------------------------------
(***************************************************************************)
(* Tables of the Lua interpreter (ltable.c): an array part for the keys    *)
(* 1 .. asize and a hash part whose collisions are chained through its own *)
(* nodes (Brent's variation), rehashed when no node is free.  A program    *)
(* reads, assigns, asks for the length and traverses; the collector kills  *)
(* the keys of empty nodes; an allocation may fail.                        *)
(*                                                                         *)
(* A key is a tuple: <<"int", i>>, <<"flt", m>> for m halves, <<"str", s>>,*)
(* <<"obj", address>>, <<"bool", b>>, <<"nil">>, <<"nan">>, or, in a node  *)
(* only, <<"dead", k>>.  Node n + next is the next one of the chain of     *)
(* node n: next is relative, as in the source, and 0 at the end.           *)
(***************************************************************************)
EXTENDS Integers, FiniteSets, FiniteSetsExt

CONSTANTS
    LimForLast,   \* LIMFORLAST: hash parts of 2^LimForLast nodes keep lastfree
    MaxASize,     \* MAXASIZE
    MaxInteger,   \* LUA_MAXINTEGER
    MaxVicinity,  \* maxvicinity of luaH_getn
    Seeds,        \* the seeds of the state that hash_search draws from
    HashOf(_),    \* hash of a string, address of an object, l_hashfloat
    ListSizes,    \* the numbers of list items of constructors
    Values,       \* what is stored
    Programs      \* the keys a program uses and the sizes its table is made with

VARIABLES table, map, trav, keys
tvars == <<table, map, trav, keys>>

Empty == "empty"
Nil == <<"nil">>
NaN == <<"nan">>
Absent == -1

twoto[i \in Nat] == IF i = 0 THEN 1 ELSE 2 * twoto[i - 1]
CeilLog2(k) == CHOOSE i \in 0 .. k : twoto[i] >= k /\ \A j \in 0 .. i - 1 : twoto[j] < k
Integer == -(MaxInteger + 1) .. MaxInteger

ASSUME SizesAssumption ==
    /\ LimForLast \in Nat /\ MaxVicinity \in Nat /\ Seeds \subseteq Nat /\ ListSizes \subseteq Nat
    /\ MaxInteger \in Nat /\ MaxASize \in Nat /\ MaxASize + 1 < MaxInteger
ASSUME ProgramsAssumption ==
    /\ Empty \notin Values
    /\ \A p \in Programs :
          /\ p.na \in 0 .. MaxASize /\ p.nh \in Nat
          /\ \A k \in p.keys :
                \/ k[1] = "int" /\ k[2] \in Integer /\ k = <<"int", k[2]>>
                \/ k[1] = "flt" /\ k[2] \in Int /\ k[2] \div 2 \in Integer /\ HashOf(k) \in Nat
                \/ k[1] \in {"str", "obj"} /\ HashOf(k) \in Nat
                \/ k[1] = "bool"
                \/ k = NaN /\ HashOf(k) \in Nat
                \/ k = Nil

--------------------------------------------------------------------------
\* Keys and main positions.

Node(T, n) == T.node[n]
Nodes(T) == 0 .. T.size - 1
Unsigned(i) == i % (2 * (MaxInteger + 1))
hashpow2(T, h) == h % T.size
hashmod(T, h) == h % (IF T.size = 1 THEN 1 ELSE T.size - 1)
mainpositionTV(T, key) ==
    CASE key[1] = "int" -> hashmod(T, Unsigned(key[2]))
      [] key[1] = "bool" -> hashpow2(T, IF key[2] THEN 1 ELSE 0)
      [] key[1] = "str" -> hashpow2(T, HashOf(key))
      [] OTHER -> hashmod(T, HashOf(key))

equalkey(key, node, deadok) == node.key = key \/ (deadok /\ node.key = <<"dead", key>>)
\* The next node of a chain, and the chain from node n on: one that has the
\* key is looked for along it.
Link(T, n) == IF n = Absent \/ Node(T, n).next = 0 THEN Absent ELSE n + Node(T, n).next
Chain(T, n) == LET c[k \in 0 .. T.size] == IF k = 0 THEN n ELSE Link(T, c[k - 1]) IN c
getgeneric(T, key, deadok) ==
    LET c == Chain(T, mainpositionTV(T, key))
        Hit(n) == n # Absent /\ equalkey(key, Node(T, n), deadok)
        hits == {k \in Nodes(T) : Hit(c[k])}
    IN IF hits = {} THEN Absent ELSE c[Min(hits)]

checkrange(i, limit) == IF i \in 1 .. limit THEN i ELSE 0
arrayindex(key) == IF key[1] = "int" THEN checkrange(key[2], MaxASize) ELSE 0
keyinarray(T, key) == IF key[1] = "int" THEN checkrange(key[2], T.asize) ELSE 0
\* A float that is an integer is that integer as a key.
NormKey(key) == IF key[1] = "flt" /\ key[2] % 2 = 0 THEN <<"int", key[2] \div 2>> ELSE key

HashGet(T, key) == LET n == getgeneric(T, key, FALSE) IN IF n = Absent THEN Empty ELSE Node(T, n).val
GetNorm(T, key) ==
    IF key = Nil THEN Empty ELSE IF keyinarray(T, key) > 0 THEN T.array[keyinarray(T, key)] ELSE HashGet(T, key)
luaH_get(T, key) == GetNorm(T, NormKey(key))

\* Mutant: a dead key is not found again.
FindIndexLive(T, key) ==
    IF key = Nil THEN 0
    ELSE IF keyinarray(T, key) > 0 THEN keyinarray(T, key)
    ELSE LET n == getgeneric(T, key, FALSE) IN IF n = Absent THEN Absent ELSE n + 1 + T.asize
\* luaH_next: the key behind the given one, Nil at the end.  Elements are
\* numbered, those of the array part first.
findindex(T, key) ==
    IF key = Nil THEN 0
    ELSE IF keyinarray(T, key) > 0 THEN keyinarray(T, key)
    ELSE LET n == getgeneric(T, key, TRUE) IN IF n = Absent THEN Absent ELSE n + 1 + T.asize
Behind(T, i) ==
    LET inarray == {j \in i + 1 .. T.asize : T.array[j] # Empty}
        inhash == {j \in (IF i > T.asize THEN i - T.asize ELSE 0) .. T.size - 1 : Node(T, j).val # Empty}
    IN IF inarray # {} THEN <<"int", Min(inarray)>> ELSE IF inhash # {} THEN Node(T, Min(inhash)).key ELSE Nil

--------------------------------------------------------------------------
\* Insertion.

haslastfree(T) == T.size >= twoto[LimForLast]
\* getfreepos: the last free node before lastfree, which moves down to it.
FreeNodes(T) == {n \in Nodes(T) : Node(T, n).key = Nil /\ (haslastfree(T) => n < T.lastfree)}
getfreepos(T) == IF FreeNodes(T) = {} THEN Absent ELSE Max(FreeNodes(T))
MoveLastFree(T) ==
    IF haslastfree(T) THEN [T EXCEPT !.lastfree = IF FreeNodes(T) = {} THEN 0 ELSE getfreepos(T)] ELSE T

\* The node that leads to mp, on the chain of the key in mp.
Previous(T, mp) ==
    LET c == Chain(T, mainpositionTV(T, Node(T, mp).key))
    IN c[Min({k \in Nodes(T) : c[k] # Absent /\ Link(T, c[k]) = mp})]

NewNode(key, v, next) == [key |-> key, val |-> v, next |-> next]
\* What a node is when it is copied from mp to f.
Moved(T, mp, f) == NewNode(Node(T, mp).key, Node(T, mp).val, IF Link(T, mp) = Absent THEN 0 ELSE Link(T, mp) - f)
\* Mutant: the chain still leads to the place the node was moved from.
MoveUnchained(T, mp, f, key, v) ==
    [T EXCEPT !.node[f] = Moved(T, mp, f), !.node[mp] = NewNode(key, v, 0)]
\* The node in the way is not in its main position: it moves to the free one.
MoveColliding(T, mp, f, key, v) ==
    [T EXCEPT !.node[Previous(T, mp)].next = f - Previous(T, mp), !.node[f] = Moved(T, mp, f), !.node[mp] = NewNode(key, v, 0)]
ChainFree(T, mp, f, key, v) ==
    [T EXCEPT
        !.node[f] = NewNode(key, v, IF Link(T, mp) = Absent THEN 0 ELSE Link(T, mp) - f),
        !.node[mp].next = f - mp]

TakesMain(T, mp) == Node(T, mp).val = Empty /\ ~T.dummy
CanInsert(T, key) == TakesMain(T, mainpositionTV(T, key)) \/ getfreepos(T) # Absent
InsertMain(T, mp, key, v) ==
    CASE TakesMain(T, mp) -> [T EXCEPT !.node[mp] = NewNode(key, v, @.next)]
      [] ~TakesMain(T, mp) /\ getfreepos(T) = Absent -> MoveLastFree(T)
      [] ~TakesMain(T, mp) /\ getfreepos(T) # Absent ->
            IF mainpositionTV(T, Node(T, mp).key) # mp THEN MoveColliding(MoveLastFree(T), mp, getfreepos(T), key, v)
            ELSE ChainFree(MoveLastFree(T), mp, getfreepos(T), key, v)
insertkey(T, key, v) == InsertMain(T, mainpositionTV(T, key), key, v)
newcheckedkey(T, key, v) ==
    IF keyinarray(T, key) > 0 THEN [T EXCEPT !.array[keyinarray(T, key)] = v] ELSE insertkey(T, key, v)

--------------------------------------------------------------------------
\* Rehash.

DummyNode == NewNode(<<"dead", Nil>>, Empty, 0)
FreeNode == NewNode(Nil, Empty, 0)
HashPart(T, size, node, dummy) ==
    [T EXCEPT !.size = size, !.node = [n \in 0 .. size - 1 |-> node], !.dummy = dummy, !.lastfree = IF dummy THEN 0 ELSE size]
setnodevector(T, size) ==
    IF size = 0 THEN HashPart(T, 1, DummyNode, TRUE) ELSE HashPart(T, twoto[CeilLog2(size)], FreeNode, FALSE)
\* The vanishing slice of the array goes to the new hash part, and then what
\* the old hash part had to either part.
reinsertOldSlice(T, newasize) ==
    LET t[i \in 0 .. T.asize] ==
            IF i = 0 THEN T
            ELSE IF i <= newasize \/ T.array[i] = Empty THEN t[i - 1] ELSE insertkey(t[i - 1], <<"int", i>>, T.array[i])
    IN t[T.asize]
reinserthash(T, old) ==
    LET t[j \in 0 .. old.size] ==
            IF j = 0 THEN T
            ELSE IF Node(old, j - 1).val = Empty THEN t[j - 1]
            ELSE newcheckedkey(t[j - 1], Node(old, j - 1).key, Node(old, j - 1).val)
    IN t[old.size]
resizearray(T, size) ==
    [T EXCEPT !.asize = size, !.hint = size \div 2,
              !.array = [i \in 1 .. size |-> IF i <= T.asize THEN T.array[i] ELSE Empty]]
luaH_resize(T, newasize, nhsize) ==
    reinserthash(resizearray(reinsertOldSlice(setnodevector(T, nhsize), newasize), newasize), T)
luaH_resizearray(T, nasize) == luaH_resize(T, nasize, IF T.dummy THEN 0 ELSE T.size)

\* What numusehash and numusearray count, with the extra key.
InUse(T) == {n \in Nodes(T) : Node(T, n).val # Empty}
Indices(T, key) == {arrayindex(k) : k \in {key} \cup {Node(T, n).key : n \in InUse(T)}} \ {0}
ArrayIndices(T) == {i \in 1 .. T.asize : T.array[i] # Empty}
\* computesizes: the array part grows to a size of which a third is in use.
InSlices(indices, size) == Cardinality({i \in indices : i <= size})
computesizes(indices) ==
    {i \in 0 .. CeilLog2(MaxASize) :
        /\ \E k \in indices : CeilLog2(k) = i
        /\ twoto[i] <= 3 * InSlices(indices, twoto[i])}
NewASize(T, key) ==
    LET sizes == computesizes(Indices(T, key) \cup ArrayIndices(T))
    IN IF Indices(T, key) = {} THEN T.asize ELSE IF sizes = {} THEN 0 ELSE twoto[Max(sizes)]
\* The keys in use and the new one that do not go to the array.
HashKeys(T, key) ==
    LET inhash == Cardinality(InUse(T)) + 1
        all == Indices(T, key) \cup ArrayIndices(T)
    IN IF Indices(T, key) = {} THEN inhash
       ELSE inhash + Cardinality(ArrayIndices(T)) - InSlices(all, NewASize(T, key))
NewHSize(T, key) ==
    LET n == HashKeys(T, key) IN IF \E i \in Nodes(T) : Node(T, i).val = Empty THEN n + n \div 4 ELSE n
rehash(T, key) == luaH_resize(T, NewASize(T, key), NewHSize(T, key))

\* luaH_set.
luaH_newkey(T, key, v) ==
    CASE v = Empty -> T
      [] v # Empty /\ CanInsert(T, key) -> insertkey(T, key, v)
      [] OTHER -> newcheckedkey(rehash(T, key), key, v)
Refused(key) == key \in {Nil, NaN}
SetNorm(T, key, v) ==
    LET n == getgeneric(T, key, FALSE)
    IN CASE Refused(key) -> T
         [] ~Refused(key) /\ keyinarray(T, key) > 0 -> [T EXCEPT !.array[keyinarray(T, key)] = v]
         [] ~Refused(key) /\ keyinarray(T, key) = 0 /\ n # Absent -> [T EXCEPT !.node[n].val = v]
         [] OTHER -> luaH_newkey(T, key, v)
luaH_set(T, key, v) == SetNorm(T, NormKey(key), v)
Grows(T, key, v) ==
    /\ v # Empty /\ ~Refused(key) /\ keyinarray(T, key) = 0
    /\ getgeneric(T, key, FALSE) = Absent /\ ~CanInsert(T, key)

--------------------------------------------------------------------------
\* luaH_getn: a border and the hint for the next call.

ArrayEmpty(T, i) == T.array[i] = Empty
hashkeyisempty(T, j) == HashGet(T, <<"int", j>>) = Empty
EmptyIn(T, part, i) == IF part = "array" THEN ArrayEmpty(T, i) ELSE hashkeyisempty(T, i)
\* The binary search between a present i and an absent j.
Halve(T, part, s) ==
    LET m == (s.i + s.j) \div 2
    IN IF s.j - s.i <= 1 THEN s ELSE IF EmptyIn(T, part, m) THEN [s EXCEPT !.j = m] ELSE [s EXCEPT !.i = m]
Bisect(T, part, i, j) ==
    LET s[k \in 0 .. j - i] == IF k = 0 THEN [i |-> i, j |-> j] ELSE Halve(T, part, s[k - 1])
    IN s[j - i].i
binsearch(T, i, j) == Bisect(T, "array", i, j)
\* hash_search: the index asize + 1 is present; what is probed doubles, with
\* bits of the seed, up to an absent index or half the greatest integer.
Probes(j, rnd) ==
    LET p[k \in 0 .. CeilLog2(MaxInteger)] == IF k = 0 THEN j ELSE 2 * p[k - 1] + ((rnd \div twoto[k - 1]) % 2)
    IN p
SearchFrom(T, j, rnd) ==
    LET p == Probes(j, rnd)
        last == Min({k \in DOMAIN p : p[k] > MaxInteger \div 2 - 1 \/ hashkeyisempty(T, p[k])})
    IN CASE hashkeyisempty(T, p[last]) -> Bisect(T, "hash", IF last = 0 THEN T.asize + 1 ELSE p[last - 1], p[last])
         [] ~hashkeyisempty(T, p[last]) /\ hashkeyisempty(T, MaxInteger) -> Bisect(T, "hash", p[last], MaxInteger)
         [] OTHER -> MaxInteger
hash_search(T, rnd) ==
    LET i == T.asize + 1
        width == twoto[IF T.asize > 0 THEN CeilLog2(T.asize) ELSE 0]
        incr == (rnd % width) + 1
    IN SearchFrom(T, IF incr <= MaxInteger - i THEN i + incr ELSE i + 1, rnd \div width)

BeforeHint(T, limit) ==
    LET near == {i \in limit - MaxVicinity .. limit - 1 : i >= 1 /\ ~ArrayEmpty(T, i)}
        first == IF limit - MaxVicinity > 1 THEN limit - MaxVicinity ELSE 1
    IN IF near # {} THEN Max(near) ELSE binsearch(T, 0, first)
\* Absent where the array part is full from the hint on.
BehindHint(T, limit) ==
    LET near == {i \in limit + 1 .. limit + MaxVicinity : i <= T.asize /\ ArrayEmpty(T, i)}
        last == IF limit + MaxVicinity < T.asize THEN limit + MaxVicinity ELSE T.asize
    IN IF near # {} THEN Min(near) - 1 ELSE IF ArrayEmpty(T, T.asize) THEN binsearch(T, last, T.asize) ELSE Absent
ArrayBorder(T) ==
    LET limit == IF T.hint = 0 THEN 1 ELSE T.hint
    IN IF T.asize = 0 THEN Absent ELSE IF ArrayEmpty(T, limit) THEN BeforeHint(T, limit) ELSE BehindHint(T, limit)
\* Mutant: the hash part is not looked at when there is an array part.
InHashIfNoArray(T, rnd) == IF T.dummy \/ T.asize > 0 \/ hashkeyisempty(T, T.asize + 1) THEN T.asize ELSE hash_search(T, rnd)
InHash(T, rnd) == IF T.dummy \/ hashkeyisempty(T, T.asize + 1) THEN T.asize ELSE hash_search(T, rnd)
luaH_getn(T, rnd) == IF ArrayBorder(T) # Absent THEN ArrayBorder(T) ELSE InHash(T, rnd)
newhint(T) == [T EXCEPT !.hint = IF T.asize = 0 THEN @ ELSE IF ArrayBorder(T) # Absent THEN ArrayBorder(T) ELSE T.asize]

--------------------------------------------------------------------------
\* The program, the collector and the allocator.

luaH_new ==
    [asize |-> 0, array |-> << >>, hint |-> 0, size |-> 1, node |-> [n \in 0 .. 0 |-> DummyNode], dummy |-> TRUE, lastfree |-> 0]
\* What a traversal has given so far, without what was removed since.
NotTraversing == [on |-> "no", key |-> Nil, seen |-> {}]
Present == {k \in DOMAIN map : map[k] # Empty}

TableInit ==
    \E p \in Programs :
        /\ keys = p.keys
        /\ map = [k \in {NormKey(key) : key \in p.keys} |-> Empty]
        /\ trav = NotTraversing
        /\ table = luaH_resize(luaH_new, p.na, p.nh)

\* lua_rawset and its like.  In a traversal a program may assign to the fields
\* the table has, not add others.
Set(key, v) ==
    /\ trav.on # "no" => NormKey(key) \in Present
    /\ Grows(table, NormKey(key), v) => NewASize(table, NormKey(key)) <= MaxASize
    /\ table' = luaH_set(table, key, v)
    /\ map' = IF Refused(key) THEN map ELSE [map EXCEPT ![NormKey(key)] = v]
    /\ trav' = IF v = Empty THEN [trav EXCEPT !.seen = @ \ {NormKey(key)}] ELSE trav
    /\ UNCHANGED keys
\* The memory for a new part is refused, or the array part would be too large
\* (table overflow): the assignment fails, the table stays.
SetFails(key, v) ==
    /\ trav.on = "no" /\ Grows(table, NormKey(key), v)
    /\ table' = MoveLastFree(table)
    /\ UNCHANGED <<map, trav, keys>>
\* A constructor makes room for its list items (OP_SETLIST).
SetList(n) ==
    /\ trav.on = "no" /\ n > table.asize /\ n <= MaxASize
    /\ \A i \in Nodes(table) : Node(table, i).val # Empty \/ Node(table, i).key = Nil \/ table.dummy
    /\ table' = luaH_resizearray(table, n)
    /\ UNCHANGED <<map, trav, keys>>
Length(rnd) ==
    /\ table' = newhint(table)
    /\ UNCHANGED <<map, trav, keys>>

\* traversestrongtable: the keys of empty nodes die if they are objects.
clearkey(node) == IF node.val = Empty /\ node.key[1] \in {"str", "obj"} THEN [node EXCEPT !.key = <<"dead", @>>] ELSE node
Collect ==
    /\ table' = [table EXCEPT !.node = [n \in DOMAIN @ |-> clearkey(@[n])]]
    /\ UNCHANGED <<map, trav, keys>>

BeginTraversal ==
    /\ trav.on = "no"
    /\ trav' = [on |-> "yes", key |-> Nil, seen |-> {}]
    /\ UNCHANGED <<table, map, keys>>
luaH_next ==
    LET i == findindex(table, trav.key)
        key == Behind(table, i)
    IN /\ trav.on = "yes"
       /\ trav' = CASE i = Absent -> [trav EXCEPT !.on = "error"]
                    [] i # Absent /\ key = Nil -> [trav EXCEPT !.on = "end", !.key = Nil]
                    [] key \in trav.seen -> [trav EXCEPT !.on = "twice"]
                    [] OTHER -> [trav EXCEPT !.key = key, !.seen = @ \cup {key}]
       /\ UNCHANGED <<table, map, keys>>
EndTraversal ==
    /\ trav.on = "end"
    /\ trav' = NotTraversing
    /\ UNCHANGED <<table, map, keys>>

TableNext ==
    \/ \E key \in keys, v \in Values \cup {Empty} : Set(key, v)
    \/ \E key \in keys, v \in Values : SetFails(key, v)
    \/ \E n \in ListSizes : SetList(n)
    \/ \E rnd \in Seeds : Length(rnd)
    \/ Collect \/ BeginTraversal \/ luaH_next \/ EndTraversal
TableSpec == TableInit /\ [][TableNext]_tvars

--------------------------------------------------------------------------
\* Properties.

\* A table is a map: whatever was assigned, removed, moved between the parts,
\* rehashed, collected or refused for want of memory, a read gives what was
\* assigned last.
TableIsMap == \A key \in keys : luaH_get(table, key) = (IF Refused(key) THEN Empty ELSE map[NormKey(key)])

\* A traversal in which fields are changed and removed, and the keys of removed
\* ones collected, gives every field that stays once, none twice, and no error.
TraversalComplete ==
    /\ trav.on \notin {"error", "twice"}
    /\ trav.on = "end" => trav.seen = Present

\* The length is a border of the table, for every hint and seed.
LengthIsBorder ==
    LET Has(i) == <<"int", i>> \in Present
    IN \A rnd \in Seeds : LET b == luaH_getn(table, rnd)
                          IN (b = 0 \/ Has(b)) /\ (b = MaxInteger \/ ~Has(b + 1))

===============================================================================
