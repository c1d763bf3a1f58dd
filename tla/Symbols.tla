------------------------------ MODULE Symbols ------------------------------
(***************************************************************************)
(* The symbol table (hash.c) on the memory pools: insert at the start,     *)
(* find for every name the scanner meets, save_id for a parameter, which   *)
(* takes the global off the table and puts a local in its bucket, and      *)
(* restore_ids at the end of the function or of a failed definition.       *)
(* restore_ids puts each global back into the bucket that the deletion of  *)
(* its local used, without hashing the name.  A node is known by its       *)
(* address, a list of nodes is a sequence, and one step is what the parser *)
(* does with one name.  The rest of mawk takes and returns blocks of its   *)
(* own in between.                                                         *)
(***************************************************************************)
EXTENDS Zmalloc, SequencesExt, Functions

CONSTANTS Ids, Keywords,
          Types,                 \* the types of symbols
          hash(_), Buckets,      \* hash(s) % HASH_PRIME
          Length(_),             \* strlen
          NodeSize,              \* sizeof(HASHNODE)
          Sizes,                 \* the sizes of other blocks
          MaxOther,              \* bound: the other blocks, taken before the text
          MaxFunctions           \* bound: the functions defined

ASSUME SymbolsAssumption ==
    /\ \A s \in Ids \cup Keywords : hash(s) \in Buckets /\ Length(s) \in Nat
    /\ Ids \cap Keywords = {} /\ Buckets # {}
    /\ {"ST_KEYWORD", "ST_NONE", "ST_VAR", "ST_FUNCT", "ST_LOCAL_NONE", "ST_LOCAL_VAR"} \subseteq Types
    /\ NodeSize \in Nat \ {0} /\ Sizes \subseteq Nat \ {0}
    /\ MaxOther \in Nat /\ MaxFunctions \in Nat

VARIABLES z,                     \* the heap
          hash_table, save_list, last_hash,
          symtab,                \* address -> [name, type], of the nodes
          others, taken,         \* the blocks of the rest of mawk
          scope, functions

memory == <<z, others, taken>>
table == <<hash_table, save_list, last_hash, symtab>>
vars == <<memory, table, scope, functions>>

\* The table as a record, for the operations that are made of others.
S == [z |-> z, hash_table |-> hash_table, save_list |-> save_list,
      last_hash |-> last_hash, symtab |-> symtab]
Becomes(s) == /\ z' = s.z /\ hash_table' = s.hash_table /\ save_list' = s.save_list
              /\ last_hash' = s.last_hash /\ symtab' = s.symtab

Init == /\ z = NoMemory /\ hash_table = [b \in Buckets |-> <<>>] /\ save_list = <<>>
        /\ last_hash = (CHOOSE b \in Buckets : TRUE) /\ symtab = <<>>
        /\ others = {} /\ taken = 0 /\ scope = "init" /\ functions = 0

-----------------------------------------------------------------------------
(* hash.c.                                                                 *)

At(s, name) == LET list == s.hash_table[hash(name)]
               IN  SelectInSeq(list, LAMBDA p : s.symtab[p].name = name)
PutFront(s, b, p) == [s EXCEPT !.hash_table[b] = <<p>> \o @]
FreeNode(s, p) == [s EXCEPT !.symtab = Restrict(@, DOMAIN @ \ {p}),
                            !.z = zfree(@, p, NodeSize)]
Write(s, p, name, type) ==
    [s EXCEPT !.symtab = [q \in DOMAIN @ \cup {p} |->
                             IF q = p THEN [name |-> name, type |-> type] ELSE @[q]]]
\* a node at the front of a bucket
NewNode(s, b, name, type) ==
    LET t == zmalloc(s.z, NodeSize)
    IN  PutFront(Write([s EXCEPT !.z = t[2]], t[1], name, type), b, t[1])

insert(s, name) == NewNode(s, hash(name), name, "ST_KEYWORD")

\* what is found moves to the front of its bucket; the node is allocated
\* before the name
find(s, name) ==
    LET i == At(s, name)
        b == hash(name)
        new == NewNode(s, b, name, "ST_NONE")
    IN  IF i = 0 THEN [new EXCEPT !.z = zmalloc(@, Length(name) + 1)[2]]
        ELSE [s EXCEPT !.hash_table[b] = <<@[i]>> \o RemoveAt(@, i)]
Found(s, name) == Head(s.hash_table[hash(name)])

delete(s, name) == [s EXCEPT !.hash_table[hash(name)] = RemoveAt(@, At(s, name)),
                             !.last_hash = hash(name)]

\* the name has just been found
save_id(s, name) ==
    LET p == Found(s, name)
        gone == delete(s, name)
        new == NewNode(gone, gone.last_hash, name, "ST_LOCAL_NONE")
    IN  [new EXCEPT !.save_list = <<p>> \o @]

\* a variant: the global is put back first, and is what delete finds
RestoreOne_first(s, p) ==
    LET name == s.symtab[p].name
        back == PutFront(s, s.last_hash, p)
    IN  FreeNode(delete(back, name), Found(back, name))
\* the local of the same name is freed, and the global takes its bucket
RestoreOne(s, p) ==
    LET name == s.symtab[p].name
        gone == delete(s, name)
    IN  PutFront(FreeNode(gone, s.hash_table[hash(name)][At(s, name)]), gone.last_hash, p)
\* a variant: only the last one is restored
restore_ids_once(s) ==
    IF s.save_list = <<>> THEN s ELSE RestoreOne([s EXCEPT !.save_list = <<>>], Head(s.save_list))
restore_ids(s) ==
    LET list == s.save_list
        restored[i \in 0..Len(list)] ==
            IF i = 0 THEN [s EXCEPT !.save_list = <<>>] ELSE RestoreOne(restored[i - 1], list[i])
    IN  restored[Len(list)]

-----------------------------------------------------------------------------
(* The scanner and the parser.                                             *)

\* a name in the text: found, and given a type
Met(name, type) ==
    LET f == find(S, name)
    IN  [f EXCEPT !.symtab[Found(f, name)].type = type]
TypeOf(name) == IF At(S, name) = 0 THEN "ST_NONE"
                ELSE symtab[hash_table[hash(name)][At(S, name)]].type

kw_init(name) == /\ scope = "init" /\ name \in Keywords /\ At(S, name) = 0
                 /\ Becomes(insert(S, name))
                 /\ UNCHANGED <<others, taken, scope, functions>>
Parse == /\ \A k \in Keywords : At(S, k) # 0
         /\ scope = "init" /\ scope' = "main"
         /\ UNCHANGED <<memory, table, functions>>

\* the type a name of type t may turn out to have
Shown(t) == {t} \cup (CASE t = "ST_NONE" -> {"ST_VAR", "ST_FUNCT"}
                        [] t = "ST_LOCAL_NONE" -> {"ST_LOCAL_VAR"}
                        [] OTHER -> {})
Use(name) == /\ scope \in {"main", "body"}
             /\ \E type \in Shown(TypeOf(name)) : Becomes(Met(name, type))
             /\ UNCHANGED <<others, taken, scope, functions>>

\* funct_head
Define(name) ==
    /\ scope = "main" /\ functions < MaxFunctions /\ functions' = functions + 1
    /\ Becomes(Met(name, IF TypeOf(name) = "ST_NONE" THEN "ST_FUNCT" ELSE TypeOf(name)))
    /\ scope' = IF TypeOf(name) = "ST_KEYWORD" THEN "main" ELSE "params"
    /\ UNCHANGED <<others, taken>>

\* f_args: a keyword or a function is a syntax error (outside_error), and a new
\* name with a "(" behind it is made a function by the scanner; a local is
\* "duplicated in argument list"
Param(name) ==
    LET f == find(S, name)
        type == TypeOf(name)
    IN  /\ scope = "params"
        /\ \/ /\ type \in {"ST_KEYWORD", "ST_FUNCT"}
              /\ Becomes(restore_ids(f)) /\ scope' = "main"
           \/ /\ type = "ST_NONE"
              /\ Becomes(restore_ids(Met(name, "ST_FUNCT"))) /\ scope' = "main"
           \/ /\ type = "ST_LOCAL_NONE"
              /\ Becomes(f) /\ UNCHANGED scope
           \/ /\ type \in {"ST_NONE", "ST_VAR"}
              /\ Becomes(save_id(f, name)) /\ UNCHANGED scope
        /\ UNCHANGED <<others, taken, functions>>

\* funct_start; improve_arglist may know the type of one parameter from an
\* earlier call
Body == /\ scope = "params" /\ scope' = "body"
        /\ \/ UNCHANGED symtab
           \/ \E p \in DOMAIN symtab :
                /\ symtab[p].type = "ST_LOCAL_NONE"
                /\ symtab' = [symtab EXCEPT ![p].type = "ST_LOCAL_VAR"]
        /\ UNCHANGED <<memory, hash_table, save_list, last_hash, functions>>

\* function_def or outside_error
Leave == /\ scope \in {"params", "body"} /\ scope' = "main"
         /\ Becomes(restore_ids(S))
         /\ UNCHANGED <<others, taken, functions>>

\* the rest of mawk
Take(size) ==
    LET t == zmalloc(z, size)
    IN  /\ scope = "init" /\ taken < MaxOther /\ taken' = taken + 1
        /\ z' = t[2] /\ others' = others \cup {[at |-> t[1], bytes |-> size]}
        /\ UNCHANGED <<table, scope, functions>>
Give(b) == /\ z' = zfree(z, b.at, b.bytes) /\ others' = others \ {b}
           /\ UNCHANGED <<taken, table, scope, functions>>

Next == \/ \E s \in Ids \cup Keywords :
             kw_init(s) \/ Define(s) \/ Param(s) \/ Use(s)
        \/ \E n \in Sizes : Take(n)
        \/ Parse \/ Body \/ Leave
        \/ \E b \in others : Give(b)

Spec == Init /\ [][Next]_vars

-----------------------------------------------------------------------------
(* Properties.                                                             *)

InTable == UNION {{hash_table[b][i] : i \in 1..Len(hash_table[b])} : b \in Buckets}
Saved == {save_list[i] : i \in 1..Len(save_list)}
NameOf(p) == symtab[p].name

\* Type correctness; a node is in the bucket of its name, and a table has no
\* two nodes of one name.
TypeOK ==
    /\ \A b \in Buckets : \A i \in 1..Len(hash_table[b]) :
         /\ hash(NameOf(hash_table[b][i])) = b
         /\ \A j \in 1..i - 1 : NameOf(hash_table[b][j]) # NameOf(hash_table[b][i])
    /\ \A p \in DOMAIN symtab : symtab[p].name \in Ids \cup Keywords /\ symtab[p].type \in Types
    /\ last_hash \in Buckets /\ scope \in {"init", "main", "params", "body"}
    /\ taken \in 0..MaxOther /\ functions \in 0..MaxFunctions

\* Every node of the table and of the save list is a block that was given out
\* and not freed, on one list only; there are no others, and every name that
\* was met has its text: restore_ids frees the locals, all of them and nothing
\* else, although it looks each of them up by name.
NodeBlocks == {Block(p, BytesToBlocks(NodeSize)) : p \in InTable \cup Saved}
NodesAccounted ==
    /\ NodeBlocks \subseteq z.live
    /\ InTable \cap Saved = {} /\ InTable \cup Saved \subseteq DOMAIN symtab
    /\ Cardinality(z.live) = Cardinality(InTable) + Len(save_list) + Cardinality(others)
                             + Cardinality({NameOf(p) : p \in InTable \cup Saved} \cap Ids)
TableConsistent == NodesAccounted /\ TypeOK

\* The heap is accounted for, whatever the sizes and the order in which blocks
\* are taken and freed, and when malloc has no memory for a chunk.
HeapAccounted == Accounted(z)

\* The table is AwkScopes: inside a function the parameters stand for locals;
\* behind it, or behind an error in it, every global is what it was.
LocalTypes == {"ST_LOCAL_NONE", "ST_LOCAL_VAR"}
Globals == {p \in InTable : symtab[p].type \notin LocalTypes} \cup Saved
TypesIn(N) == [s \in {NameOf(p) : p \in N} |-> symtab[CHOOSE p \in N : NameOf(p) = s].type]
Scopes == INSTANCE AwkScopes WITH
    globals <- TypesIn(Globals), locals <- TypesIn(InTable \ Globals), place <- scope
NamesAreScoped == Scopes!Spec
=============================================================================
