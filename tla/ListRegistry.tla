---------------------------- MODULE ListRegistry ----------------------------
(***************************************************************************)
(* A keyed YANG list (YANGListType, lib/yangtypes.py) in a container, its   *)
(* entries and the path registry they are announced to.                     *)
(*                                                                         *)
(* A key exists in three forms: the value the program passes, which is the  *)
(* key of the Python dictionary; its text, which is in the path; and the    *)
(* typed leaf of the entry.  An entry is built and registered before its    *)
(* key leaf is set, and the leaf may refuse the key.                        *)
(*                                                                         *)
(* Next to the list the container has a leaf z; with InChoice the two are   *)
(* the cases of a choice.  Every call is one step: a program is             *)
(* single-threaded and no call here leaves control to it before its end.    *)
(***************************************************************************)
EXTENDS Naturals, FiniteSets, Sequences

CONSTANTS
  Keys,        \* the values a program passes as keys
  Text,        \* Text[k]: the key as a string
  Natives,     \* the values of the key leaf
  Native,      \* Native[k]: k converted by the key leaf's type, or Invalid
  Invalid,
  Values,      \* the values of the leaf v of an entry and of z
  Null,        \* the value of a leaf nobody has set; it may be in Values
  NullKey,     \* the same for the key leaf; it may be in Natives
  Calls,       \* the list methods the program calls
  InChoice,    \* the list and z are two cases of a choice
  None,
  MaxEntries,  \* bound: entries that exist at a time
  MaxHeld      \* bound: handles to entries the program keeps

Texts   == {Text[k] : k \in Keys}
Ids     == 1..MaxEntries
Holder  == 0      \* the container the list is in

\* A native value passed as a key, as append() does, converts to itself.
ASSUME KeyAssumption ==
  /\ Natives \subseteq Keys
  /\ DOMAIN Text = Keys
  /\ Native \in [Keys -> Natives \cup {Invalid}]
  /\ \A n \in Natives : Native[n] = n
  /\ Invalid \notin Natives

ASSUME BoundAssumption ==
  /\ MaxEntries \in Nat \ {0}
  /\ MaxHeld \in Nat
  /\ InChoice \in BOOLEAN
  /\ Calls \subseteq {"add", "append", "set", "assign", "delete", "del", "unset"}
  /\ None \notin Ids

\* What is registered: entries, and leaves with the object they belong to,
\* their value and `_changed()`.
Entry(e)      == [is |-> "entry", of |-> e, val |-> Null, set |-> FALSE]
Leaf(o, v, s) == [is |-> "leaf", of |-> o, val |-> v, set |-> s]
Objects ==
  [is : {"entry", "leaf"}, of : Ids \cup {Holder},
   val : Values \cup Natives \cup {Null, NullKey}, set : BOOLEAN]

\* The list itself is not registered; the step of an entry holds its key.
EntryPath(t) == <<t>>
KeyPath(t)   == <<t, "key">>
ValPath(t)   == <<t, "val">>
ZPath        == <<"z">>
Paths == {EntryPath(t) : t \in Texts} \cup {KeyPath(t) : t \in Texts}
           \cup {ValPath(t) : t \in Texts} \cup {ZPath}

ASSUME PathAssumption == "z" \notin Texts /\ None \notin Objects

\* Leaves are numbers and strings, which compare by value; entries by identity.
SameObject(a, b) ==
  IF a.is = "leaf" /\ b.is = "leaf" THEN a.val = b.val ELSE a = b

Registry == INSTANCE PathRegistry WITH Equal <- SameObject

VARIABLES
  members,      \* members[k]: the entry stored under k, or None
  entry,        \* entry[e]: what entry e holds, for the entries that exist
  listChanged,  \* the list's `_changed()`
  z,            \* the leaf next to the list
  reg,          \* the registry: reg[p] is the object at path p, or None
  held          \* the entries the program keeps handles to

vars == <<members, entry, listChanged, z, reg, held>>

TypeOK ==
  /\ members \in [Keys -> Ids \cup {None}]
  /\ DOMAIN entry \subseteq Ids
  /\ entry \in [DOMAIN entry -> [text : Texts, key : Natives \cup {NullKey},
                                 val : Values \cup {Null}, set : BOOLEAN]]
  /\ listChanged \in BOOLEAN
  /\ z \in [is : {"leaf"}, of : {Holder}, val : Values \cup {Null}, set : BOOLEAN]
  /\ reg \in [Paths -> Objects \cup {None}]
  /\ held \subseteq DOMAIN entry

-----------------------------------------------------------------------------
UnsetZLeaf == Leaf(Holder, Null, FALSE)
Nothing    == [k \in Keys |-> None]

Init ==
  /\ members = Nothing
  /\ entry = <<>>
  /\ listChanged = FALSE
  /\ z = UnsetZLeaf
  /\ reg = [p \in Paths |-> IF p = ZPath THEN UnsetZLeaf ELSE None]
  /\ held = {}

\* The entries something refers to; Python frees the others.
Registered == {reg[p].of : p \in {q \in Paths : reg[q] # None}} \ {Holder}
Referenced == ({members[k] : k \in Keys} \ {None}) \cup held \cup Registered

\* What every step does with the entries: e now holds x, the rest is kept.
EntriesBecome(e, x) ==
  entry' = [i \in Referenced' |-> IF i = e THEN x ELSE entry[i]]
EntriesKept == entry' = [i \in Referenced' |-> entry[i]]

-----------------------------------------------------------------------------
(* Building an entry: YANGListType.__set                                   *)

\* The new entry, for key k and with the elements of src: the entry and its
\* unset leaves are registered, then the leaves src has set.
Announced(r, e, k, src) ==
  LET t  == Text[k]
      r1 == Registry!Register(r, EntryPath(t), Entry(e))
      r2 == Registry!Register(r1, KeyPath(t), Leaf(e, NullKey, FALSE))
      r3 == Registry!Register(r2, ValPath(t), Leaf(e, Null, FALSE))
      r4 == IF src.keySet
            THEN Registry!Register(r3, KeyPath(t), Leaf(e, src.key, TRUE)) ELSE r3
  IN IF src.set
     THEN Registry!Register(r4, ValPath(t), Leaf(e, src.val, TRUE)) ELSE r4

\* Mutants: a refused key is stored; the key is set before src is copied; the
\* members are made anew.
BuildAnyway(k, src, r) ==
  LET e == CHOOSE i \in Ids : i \notin DOMAIN entry
  IN /\ Ids \ DOMAIN entry # {}
     /\ held' = held
     /\ reg' = Announced(r, e, k, src)
     /\ members' = [members EXCEPT ![k] = e]
     /\ EntriesBecome(e, [text |-> Text[k], key |-> Native[k], val |-> src.val, set |-> src.set])
BuildKeyFirst(k, src, r) ==
  LET e == CHOOSE i \in Ids : i \notin DOMAIN entry
  IN /\ Ids \ DOMAIN entry # {}
     /\ held' = held
     /\ reg' = Announced(r, e, k, src)
     /\ members' = [members EXCEPT ![k] = e]
     /\ EntriesBecome(e, [text |-> Text[k], key |-> src.key, val |-> src.val, set |-> src.set])
BuildAlone(k, src, r) ==
  LET e == CHOOSE i \in Ids : i \notin DOMAIN entry
  IN /\ Ids \ DOMAIN entry # {}
     /\ held' = held
     /\ reg' = Registry!Register(Announced(r, e, k, src), KeyPath(Text[k]), Leaf(e, Native[k], TRUE))
     /\ members' = [Nothing EXCEPT ![k] = e]
     /\ EntriesBecome(e, [text |-> Text[k], key |-> Native[k], val |-> src.val, set |-> src.set])

\* Then the key leaf is set to k.  If its type refuses k, KeyError is raised
\* with everything registered and nothing stored.
Build(k, src, r) ==
  LET e == CHOOSE i \in Ids : i \notin DOMAIN entry
      a == Announced(r, e, k, src)
      new == [text |-> Text[k], key |-> Native[k], val |-> src.val, set |-> src.set]
  IN /\ Ids \ DOMAIN entry # {}
     /\ held' = held
     /\ IF Native[k] = Invalid
        THEN /\ reg' = a
             /\ members' = members
             /\ EntriesBecome(e, [new EXCEPT !.key = src.key])
        ELSE /\ reg' = Registry!Register(a, KeyPath(Text[k]), Leaf(e, Native[k], TRUE))
             /\ members' = [members EXCEPT ![k] = e]
             /\ EntriesBecome(e, new)

\* An entry object a program passes: an empty one, or with its leaves set.
NoSource == [key |-> NullKey, keySet |-> FALSE, val |-> Null, set |-> FALSE]
Sources == [key : Natives, keySet : {TRUE}, val : Values, set : {TRUE}]
             \cup {NoSource}

\* add(k): the list's own `_set` is not called, and the entry's does not climb
\* through the list: no case of the choice is cleared.
Add(k) ==
  /\ "add" \in Calls
  /\ members[k] = None
  /\ k # ""
  /\ Build(k, NoSource, reg)
  /\ UNCHANGED <<listChanged, z>>

\* `_set` of the list: marked, and with a choice z is unset.
Marked(r) == IF InChoice THEN Registry!Register(r, ZPath, UnsetZLeaf) ELSE r

\* Mutant: the list is marked, the choice is left alone.
MarkOnly ==
  /\ listChanged' = TRUE
  /\ z' = z

Mark ==
  /\ listChanged' = TRUE
  /\ z' = IF InChoice THEN UnsetZLeaf ELSE z

\* The empty string is refused after the list has been marked.
SetEntry(k, src) ==
  /\ Mark
  /\ IF k = ""
     THEN /\ reg' = Marked(reg)
          /\ UNCHANGED <<members, held>>
          /\ EntriesKept
     ELSE Build(k, src, Marked(reg))

\* lst[k] = src: k need not be src's key.
SetItem(k, src) ==
  /\ "set" \in Calls
  /\ SetEntry(k, src)

\* append(src): the key is the value of src's key leaf.
AppendItem(src) ==
  /\ "append" \in Calls
  /\ src.key \in Keys
  /\ SetEntry(src.key, src)

-----------------------------------------------------------------------------
(* Removing entries                                                        *)

\* delete(k).  If the path is not registered, XPathError is raised after the
\* member has gone.
Delete(k) ==
  /\ "delete" \in Calls
  /\ members[k] # None
  /\ members' = [members EXCEPT ![k] = None]
  /\ reg' = Registry!Unregister(reg, EntryPath(Text[k]))
  /\ UNCHANGED <<listChanged, z, held>>
  /\ EntriesKept

\* del lst[k]
DelItem(k) ==
  /\ "del" \in Calls
  /\ members[k] # None
  /\ members' = [members EXCEPT ![k] = None]
  /\ UNCHANGED <<listChanged, z, reg, held>>
  /\ EntriesKept

\* _unset_<list>: a new, empty list.
UnsetList ==
  /\ "unset" \in Calls
  /\ members' = Nothing
  /\ listChanged' = FALSE
  /\ UNCHANGED <<z, reg, held>>
  /\ EntriesKept

\* _set_<list>(v): the new list marks itself and then takes nothing from v.
SetList ==
  /\ "assign" \in Calls
  /\ members' = Nothing
  /\ Mark
  /\ reg' = Marked(reg)
  /\ UNCHANGED held
  /\ EntriesKept

-----------------------------------------------------------------------------
(* The leaves                                                              *)

\* z = v: the other case, the list, is unset.
SetZ(v) ==
  /\ z' = Leaf(Holder, v, TRUE)
  /\ reg' = Registry!Register(reg, ZPath, z')
  /\ members' = IF InChoice THEN Nothing ELSE members
  /\ listChanged' = (listChanged /\ ~InChoice)
  /\ UNCHANGED held
  /\ EntriesKept

Reached == ({members[k] : k \in Keys} \ {None}) \cup held

\* Leaf v of entry e becomes a new object.  The path of e is the one it was
\* built with, whatever is there now; if nothing is, XPathError is raised and
\* the leaf keeps its old object.
SetV(e, v, s) ==
  /\ Registry!CanRegister(reg, ValPath(entry[e].text))
  /\ reg' = Registry!Register(reg, ValPath(entry[e].text), Leaf(e, v, s))
  /\ UNCHANGED <<members, listChanged, z, held>>
  /\ EntriesBecome(e, [entry[e] EXCEPT !.val = v, !.set = s])

Keep(e) ==
  /\ Cardinality(held) < MaxHeld
  /\ held' = held \cup {e}
  /\ UNCHANGED <<members, listChanged, z, reg>>
  /\ EntriesKept

Drop(e) ==
  /\ held' = held \ {e}
  /\ UNCHANGED <<members, listChanged, z, reg>>
  /\ EntriesKept

Next ==
  \/ \E k \in Keys : Add(k) \/ Delete(k) \/ DelItem(k)
  \/ \E src \in Sources : AppendItem(src) \/ \E k \in Keys : SetItem(k, src)
  \/ SetList \/ UnsetList
  \/ \E v \in Values : SetZ(v)
  \/ \E e \in Reached : SetV(e, Null, FALSE) \/ \E v \in Values : SetV(e, v, TRUE)
  \/ \E e \in {members[k] : k \in Keys} \ {None} : Keep(e)
  \/ \E e \in held : Drop(e)

Spec == Init /\ [][Next]_vars

-----------------------------------------------------------------------------
(* Properties                                                              *)

\* The path of an entry that is in the list resolves to that entry, whatever
\* was added, replaced or removed before, with or without unregistering.  It
\* needs keys with a text each: add(1) and add("1") share a path
\* (YANGListType.__set registers every entry anew, yangtypes.py:686-694).
EntriesResolve ==
  \A k \in Keys : members[k] # None =>
    reg[EntryPath(Text[k])] = Entry(members[k])

\* "No action is required to ensure that objects unregister themselves as they
\* are removed from the data tree" (docs/xpathhelper.md:120): what is registered
\* below the list is an entry of the list or lies in one.
NothingRemovedResolves ==
  \A p \in Paths \ {ZPath} : reg[p] # None =>
    \E k \in Keys :
      /\ members[k] # None
      /\ p[1] = Text[k]
      /\ p = EntryPath(Text[k]) => reg[p] = Entry(members[k])

\* The list and the registry as one map (see IndexedStore): the key and leaf
\* v of every entry are found with the same value and the same `_changed()`
\* in the tree and by path, after every call.
Content(key, val, set) == [key |-> key, val |-> val, set |-> set]
InTree == [k \in Keys |->
  IF members[k] = None THEN None
  ELSE Content(entry[members[k]].key, entry[members[k]].val, entry[members[k]].set)]
ByPath == [k \in Keys |->
  IF reg[EntryPath(Text[k])] = None THEN None
  ELSE Content(reg[KeyPath(Text[k])].val, reg[ValPath(Text[k])].val, reg[ValPath(Text[k])].set)]
ContentsOf(k) == {Content(Native[k], v, s) : v \in Values \cup {Null}, s \in BOOLEAN}

Store == INSTANCE IndexedStore WITH
  Names <- Keys, Contents <- ContentsOf, Absent <- None, tree <- InTree, index <- ByPath
ImplementsStore == Store!Spec

\* z and entries of the list, two cases of a choice, are never there together.
CasesExclusive == InChoice => ~(z.set /\ members # Nothing)

\* An entry leaves the list alone, or with the whole list being unset; no
\* write of another entry or of the list loses it.
WritesKeepEntries ==
  [][ \A k \in Keys :
        members[k] # None /\ members'[k] = None =>
          members' = [members EXCEPT ![k] = None] \/ ~listChanged' ]_vars
=============================================================================
