# pyangbind: models, checks and proofs

pyangbind turns YANG modules into Python classes. The generated classes hold
configuration data, check it against the YANG types, keep the cases of a choice
apart, and are loaded from and written to JSON and XML. This directory models
the parts of pyangbind that keep state, checks them with TLC and proves the
main invariants of the core with TLAPS.

All of it is single-threaded Python; nothing is persisted. What makes it hard
is not concurrency but re-entrance and partial effects: a setter is a chain of
nested calls (constructor, `_set`, the parent's `_set`, `_unset_` of other
elements, the path helper) and any of them may raise halfway; objects are
replaced rather than changed, so a program may go on using one that is no
longer in the tree; the same datum is kept in several places (a value and its
flags, a list entry and the registry); and what one call leaves behind shows
only several calls later.

## Inventory

| part | source | state | operations | what is hard |
|---|---|---|---|---|
| Generated containers | `plugin/pybind.py` 1009-1168 (the class template), `lib/yangtypes.py` 902-1217 (`YANGDynClass`) | one object per container instance: its element slots, `_parent`, `_mchanged`, `_cpresent`, `_choice`, `__choices__` | `_set_<e>`, `_unset_<e>`, `_get_<e>`, `_set_present`, `_set` | `_set` climbs to the root and unsets other cases on the way, before the value is known to be valid; replaced objects live on in the program's variables; flags and data are changed by different calls |
| YANG lists | `lib/yangtypes.py` 516-871 (`YANGListType`) | `_members`: ordered map from key to entry | `add`, `append`, `__setitem__`, `delete`, `__delitem__`, `get` | the key is used as given for the map, as a string for the path and as a typed leaf inside the entry; an entry is registered while it is built, before its key is accepted |
| Path registry | `lib/xpathhelper.py` (`YANGPathHelper`) | an XML tree of paths, a library from ids to objects | `register`, `unregister`, `get`, `get_unique`, `get_list` | must follow every object the containers and lists make, replace and drop |
| Leaf-lists | `lib/yangtypes.py` 401-513 (`TypedListType`) | a Python list of typed members | `append`, `insert`, `__setitem__`, `remove`, `pop`, ... | uniqueness is tested on the value before it is converted |
| Restricted types | `lib/yangtypes.py` 171-395, 135-168 | per class: the list of tests | construction | typedefs of typedefs share class attributes |
| References | `lib/yangtypes.py` 1220-1349 (`ReferenceType`) | the path, the referenced object | construction, `_get` | what an assignment does depends on how many objects the path leads to; they may change afterwards |
| Other types | `lib/yangtypes.py` 874-899, 1352-1447 | the value | construction | - |
| Identity resolution | `helpers/identity.py` | worklist of identities, the store of identities seen | `build_store_from_definitions` | loops while a base is missing |
| Typedef resolution | `plugin/pybind.py` 482-645 (`build_typedefs`) | worklist of typedefs, the known ones | `build_typedefs` | order of dependencies, unions, termination |
| Code generation | `plugin/pybind.py` 287-437, 648-1182, 1185-1704 | the YANG statement tree, read only | emit one class per container | mostly text |
| `PybindBase` | `lib/base.py` | - | `get`, iteration | `get(filter=True)` shows what is set below a container |
| JSON and XML loaders | `lib/serialise.py` 371-718, 718-875 | the tree being loaded | `load_json`, `load_ietf_json`, `load_xml` | `overwrite`, order of keys, a load that fails halfway |
| Serialisers | `lib/serialise.py` 74-455, `lib/pybindJSON.py` | - | `dumps`, `preprocess_element`, the encoders | filters depend on the flags |
| Dataclass bindings | `plugin/pybind_dataclass.py` | dataclass nodes: values, presence marks, annotations | `__setattr__`, `mark_present`, `validate_tree`, `to_ietf_json`, `from_ietf_json`, the XPath parser and evaluator | validation put off until the tree is whole, over empty containers, cases and `when`s; presence kept apart from values; unions in JSON; an evaluator of its own that must never misjudge |
| Dumb dataclasses | `plugin/pybind_dataclass_dumb.py` | - | emit dataclasses | text |
| Helpers | `helpers/misc.py`, `lib/pybindJSON.py` | - | module lookup | - |

How the parts meet: a container setter constructs the new value through
`YANGDynClass`, whose constructor calls `_set` (and with it the `_set` of every
container above) and registers the object with the path registry before the
base type has accepted the value. A list constructs its entries the same way,
with a path of its own. The loaders and the copy constructor call the setters
element by element, guided by `_changed()`. `get` and the serialisers read the
flags. References read the registry.

What makes each part correct, in one line:

* containers: what is set below a container is reported above it; the cases of
  a choice never hold data together; a write erases nothing but rival cases;
* lists and registry: the registry resolves a path to the object the tree holds
  there, and to nothing once that is gone; one entry per key;
* leaf-lists: no member twice, whichever of the methods brings it in;
* restricted types: what is accepted meets every restriction of the chain;
* references: a leafref reads as what it was set to, and that is there if it
  has to be;
* identity and typedef resolution: ends, and every identity or typedef is
  handled after what it is derived from;
* loaders: what the document says is in the tree after a load, what it does not
  name is untouched, and a load that fails leaves the rest alone;
* dataclass bindings: what is emitted reads back; what `validate_tree` reports
  is what the schema requires and the tree lacks, no more and no less.

## Plan

In order of importance; what this edition holds is marked "done".

1. `ContainerTree`, `ConfigTree`, `ContainerTreeImpl` (done): the generated
   containers, what they promise about the data, and that they keep it.
2. `PathRegistry`, `ListRegistry`, `IndexedStore` (done): lists, their entries
   and the registry. `ListRegistry` instantiates `PathRegistry`.
3. `IdentityResolution`, `TypedefResolution` (done): the two worklists of the
   plugin.
4. `TypedList`, `LeafList`, `RestrictedTypes`, `Loaders`, `References` (done):
   the values. `LeafList` and `Loaders` extend `TypedList`, since a loader fills
   a leaf-list by its methods.
5. `DataclassCodec`, `DataclassTree` (done): assignment, presence, annotations and
   the way through JSON and back.
6. `DataclassValidation`, `ListValidation`, `InstanceIdentifiers` (done): the walk
   of `validate_tree` over nodes, over one list, and after one identifier.
7. `IdentitySpellings`, `XPathParser`, `XPathEval`, `XPathCalls` (done): what the
   values of an identityref mean, and the expressions of `must` and `when`.

Left: a choice directly inside a case of the generated classes, lists with
several keys or none, the composition of `ListRegistry` and `ContainerTree` (a
list inside a case), what the serialisers leave out, unions with leafref members
in the dataclass bindings.

Theorems left: what `CasesNeverCoexist` says, of the composition of lists and
containers.

## The modules and the code

### Containers

An object is a pair of a schema node and a generation; `heap` is the objects
that exist, `kid` the slots `self.__<e>` that hold containers, `leaf` those that
hold leaves, `up` the generation of `_parent`, `changed` and `present` the flags
`_mchanged` and `_cpresent`. `_unset_<e>` makes a new object of a free
generation, all that is below it with it; the old one exists as long as something
refers to it (`Collect` frees the others at once, as reference counting does, so
that generations can be used again).

A setter is a chain of nested calls, and each call is a step: `SetLeaf` and
`SetContainer` enter the constructor; `SetStep` is one call of `_set`, which
unsets the other cases of the choice it was called with, marks the object and
goes on to `_parent`; `StoreLeaf`, `RejectLeaf` and `CopyContainer` are what
comes after the last `_set` has returned. No other operation starts in between,
the program being single-threaded. A value whose type raises only in `__init__`
(`LateLeaves`) is rejected there: after `_set`. Types that reject in `__new__` do
so before anything has changed and are not in the model.

`ContainerTreeImpl` adds history variables with the data reachable from the root
and the operation under way, and states that they behave like `ConfigTree`.
There, a write stores its value and erases the leaves in other cases; a rejected
write or one through a stale handle stores nothing, but may erase rivals: the
code does that, and the specification says no more than that.

### Lists and the registry

`members` is `YANGListType._members`, `entry` the entries that exist, with the
text their path was built from, `reg` the registry: the object at each path.
`Build` is `__set`: register the entry and its unset leaves, copy the source,
set the key leaf, store. Keys are Python values; `Text` is `str()` of a key and
`Native` what the key leaf's type makes of it, or `Invalid`. `InChoice` puts the
list and a leaf `z` in two cases of a choice. Every call is one step, since
none hands control back before it ends; a call that fails leaves what the code
leaves. A call that fails without an effect (a duplicate key in `add`, a missing
one in `delete`, a leaf whose path is not registered any more) is not a step.

`IndexedStore` says what a reader may rely on: tree and index are one map.
`ListPrograms` has the programs that use a list, by the calls they make, and what is
promised to each.

### Identities and typedefs

Both are queues that put back what cannot be resolved yet. `IdentityResolution`
goes on to the lists of children, extended in place, and the tables by plain
name. `TypedefResolution` goes on to the generation of the classes and the
entries under plain names in `class_map`. A schema is chosen in the initial state
and never changes.

### Values

`ValuePrograms` has the four programs of this part, one for each of the modules
below, the assumptions on chains of types and on documents, and what is promised.

`TypedList` is the leaf-list as a Python list: its members, and what `append`,
`insert` and the constructor do with a value as it is passed. `Native` is what the
member type makes of a value, or `Invalid`; a passed value that is converted, such
as the text `"1"`, is not equal to the member it becomes, which is what the tests for
duplicates overlook. `LeafList` adds the wrapper: each method announces the change,
and so drops the other case, before the list has looked at the value. Assignment
and `extend` go value by value and may end in the middle; each value is a step.

`RestrictedTypes` makes one object of a class in a chain of restricted classes.
`attr` is the attribute `_restriction_tests`, which every `__new__` overwrites on the
class of the object, `making` the objects under construction and `level` the class
whose `__new__` or `__init__` is next.

`Loaders` goes through a document member by member; a value of a leaf-list and an
entry of a list is a step each. `load.before` is the tree when the load began, a
history variable of the properties. A load that raises stays where it is. `ByOrder` is
the order in which load_json goes through the entries of a list: `kdict` has one entry
for each `__yang_order`, so of entries with the same number only the last is in it.

`References` sets one leafref while entries or items come, go and change. `targets`
is what is registered at the path, the entries removed with `del` among them.

### Dataclasses

`DataclassPrograms` has the programs that change a tree and that validate one, the
assumptions on types and values, and what is promised to them; `MCDataclasses` adds
programs for what the modules on expressions, identifiers and identities model.

`DataclassCodec` has the types: a value is its Python class and its text, a member
of a union is what texts it reads. `DataclassTree` is a root with a leaf, a leaf-list
and two containers, one with presence; annotations of leaf-list entries are kept by
index. `Encoded` and `Decoded` are `to_ietf_json` and `from_ietf_json`.

`DataclassValidation` is the walk of `validate_tree`, from the leaves of the schema to
its root: what an empty container leaves pending goes up to the node above (`Hoist`),
by case and by `when`, and what depends on a `when` is queued until the walk is over.
`ListValidation` is the walk over one list or leaf-list with the sets Python keeps,
and the leafrefs that are looked up once it is over. `InstanceIdentifiers` goes down the
classes and the objects at once, one step of the identifier at a time; objects are numbers
in a heap, an object before those it holds. Its reference, `Denoted`, goes from instance to
instance and looks each step up in the class of the instance it is at.

`IdentitySpellings` has the stack over the derived identities, the table of spellings
it fills, what encoding, decoding and defaults do with it, and `derived-from()`.

`XPathParser` is the recursive descent as recursive operators over token sequences.
`XPathEval` evaluates one expression, an axis or a predicate at a time and the nodes
below one by one (`queue`, the list `stack` of `_xpath_axis`); `objs` are the `_XNode`s
made, since the evaluator tells nodes apart by them. `XPathCalls` is one call of a
function or of an operator on evaluated arguments, with numbers in halves.

## Runs

A run may hold several programs: the variable `program` (of `ListPrograms`,
`ValuePrograms`, `DataclassPrograms` and `MCContainerTreeImpl`) is chosen in the initial state and says which
of them is under way. Properties that are claimed for one of them only name it.

| run | instance | shows |
|---|---|---|
| `containers` | a choice of two presence containers, in one of them a container with a choice of its own, in the other one a container; a program that works from the root and takes presence back (`direct`), one that keeps a handle, copies and writes through it (`handles`), and one that keeps a handle to the container with a choice (`inner`) | flags climb, presence and flag agree, cases exclude each other also in objects that have left the tree, objects sit in the slot their parent names, and setters, resets and copies implement `ConfigTree` |
| `lists` | two numbers, a text the key refuses and the empty text as keys; all calls with a stale handle (`any`), the calls that keep the registry (`tree`), the calls that mark the list (`marking`) | an entry in the list is found by its path whatever came before; tree and registry are one map; cases exclude each other and no write loses another entry |
| `identities` | all acyclic schemas of four identities, with and without a second prefix | the loop ends, the order, nothing lost, complete tables |
| `typedefs` | all schemas of three typedefs, a type of YANG and one that is not defined, cycles included | the loop ends with an error for what cannot be resolved only; the order; classes are made from the types meant |
| `values` | a leaf-list with values in one and in two forms and refused ones (`list`); chains of up to three restricted classes (`type`); up to three loads of twelve documents in the three formats (`load`); a leafref to the keys or a leaf of three entries, or to three items (`refer`) | no exact value twice, one case, no class of the chain passed over; what loads put in, keep, refuse and repeat; what a leafref reads |
| `dataclasses` | trees of each type alone and of each union of two (`values`, `nodes`); schemas of three fields (`validate`); expressions at three nodes of a tree with identities in two modules (`evaluate`), calls (`call`), expressions of operators in operators (`parse`); identifiers of up to three steps, also to leaves of bits (`identify`); three identities (`spell`); up to three entries (`list`) | the round trip through JSON, and that validation, expressions, identifiers and identities mean what RFC 7950, RFC 7951 and XPath 1.0 say, but for what is named below |
| `container_nested_choice` | as `containers`, the inner choice directly in the case | violated: both cases hold data |
| `list_removed` | add and del | violated: a removed entry still resolves |
| `identity_missing` | one base is not defined | violated: the queue never ends |
| `load_lost` | as `values`, with one document that load_json and load_xml load whole | violated: with `overwrite` a list keeps its last entry only |
| `restrictions_dropped` | the types of `values` | violated: a class derived from another takes a value that passes one of its two tests |
| `misjudged` | the schemas of `dataclasses` | violated: a mandatory leaf is reported though its `when` is false |

### Bounds

* Containers: two elements per choice, three levels and one handle (`MaxHeld`) are
  what it takes for a call to climb past a choice, for a case to be cleared that
  holds an inner choice, and for a stale object to report into the live tree; the handle
  may be to the container with a choice (`Keepable`), whose cases exclude each other when
  it has left the tree, too.
  `MaxGen` bounds the objects of one node alive at a time: one in the tree, one held
  and one being copied or built.
* Lists: two keys let entries be replaced, deleted and confused. `MaxEntries` and the
  bounds of the MC module on entries leave room for two members, one removed entry that is
  registered or held, and, where cases are switched, a second one.
* Four identities make every shape of inheritance with a diamond; three typedefs make
  chains and cycles of length three, for which two tries (`MaxTries`) are enough, as
  1000 are in the code for every chain shorter than that.
* Leaf-lists (`MaxItems`): four members, of two values of which one comes in two forms,
  so that a value is appended, inserted and assigned next to itself in either form; an
  assignment or `extend` takes up to three, one of them refused in each place.
* Restricted types: three classes are the fewest of which one is neither the first nor
  the last, with one test or two that overlap or exclude each other.
* Loads (`MaxLoads`): the third load meets a tree that two others have made, or the
  same document twice. The documents hold each kind of member in each of its cases,
  before and after one that is refused.
* References: with three targets there are none, one, two, and several of one value.
* Validation: three fields stand one below the other, two levels of empty containers
  above a leaf, or beside each other in two cases; choices are nested once.
* Expressions: three steps with up to two predicates reach every pair of axes in the
  tree of nine nodes, where a node may be reached on several ways. Two leaves hold
  identities of one name in two modules; paths and values are compared by all six
  operators, in expressions and, with a child, in predicates. Operators are nested
  two deep, and once more inside predicates, arguments and parentheses.
* Identifiers: a list of two entries, two roots, a presence container and a leaf of two
  bits at each level give every kind of step one to take and one that fails.
* Calls: texts of up to three characters of two kinds, numbers from -2 to 4 in halves
  and NaN: positions before, in and after the text, and ties. Products and quotients
  that are no multiple of a half are left out.
* Identities in the dataclass bindings: a base and three more, in three modules, of which
  one has another one's name as its prefix.
* Lists under validation: a third entry lets a duplicate be that of the first or of the
  second; a type has the number 1, the Boolean and the text that look like it, and bits.

### Fairness

Only the two resolutions have liveness properties. Each is a loop in one thread, which
runs until it ends: weak fairness of the next-state relation. Identities terminate
because the schemas of that run are acyclic and closed; the run `identity_missing` drops
the latter. The others have none: a program may stop calling, and what ends after a
fixed number of steps (a load, a validation) is described by what holds at its end.

A model may stop where the code does: the resolutions, a load, a validation and an
evaluation end, so their runs do not check for deadlock. In the others there is always
another call.

## What the code does that the properties leave out

Where the code breaks what one would expect, the property says so in its definition and
excepts exactly that; several of the definitions without the exception stand in the
modules and are named here. These were seen in the running code:

* add() does not mark the list and does not unset other cases (`yangtypes.py:806`): the
  program `marking` is without it.
* Assigning a list, or a container with a list in it, loses the entries
  (`yangtypes.py:550`).
* `del` and `_unset_<list>` leave paths registered (`yangtypes.py:737`); run
  `list_removed`. A refused key leaves one, too (`yangtypes.py:715`).
* `1` and `"1"` are two keys with one path (`yangtypes.py:801`).
* A registered leaf may be the equal leaf of a replaced entry (`xpathhelper.py:247`).
* `_set_present(False)` clears the flag over children that are set
  (`yangtypes.py:1206`): `ChangedUpward` excepts the containers in `Clearable`.
* The sum of no nodes is no number to comparisons, so that `sum(x) <= 100` is false
  without an `x` (`pybind_dataclass.py:1208`).

and these read in it:

* Choices of one name in different containers: a write erases its own case
  (`yangtypes.py:1114`).
* Two typedefs of one name in two modules: the one generated last is what the plain
  name means in both (`pybind.py:645`). Two identities of one name: their common table is
  the later one's (`pybind.py:451`).
* A leaf-list takes a value twice in two forms (`ValuesUnique` of `LeafList`,
  `yangtypes.py:431`).
* The tests of a restricted class are alternatives to its `__new__` (`yangtypes.py:355`);
  its `__init__` demands all of those it finds on the class, but there a base class has
  left its own. A class can have several tests if it restricts a text by length and
  pattern (`build_elemtype`, `pybind.py:1185`; the range of a number is alone in its class):
  derived from another restricted class, it takes a text of the wrong length if the pattern
  is right, and the other way round. Run `restrictions_dropped`; `AcceptedPasses` says
  what is left of the tests.
* A leafref to a single leaf that is no key writes its value into that leaf, and cannot
  be read any more once there is a second entry (`PointersReadable` of `References`,
  `yangtypes.py:1275`). The targets of a leafref are those registered: an entry removed
  with `del` is one of them.
* With `overwrite`, of a list the last entry of the document is loaded
  (`serialise.py:799`), run `load_lost`; load_json without it loses the values of a
  leaf-list that are converted (`serialise.py:683`), and of the entries with the same
  `__yang_order` all but the last (`serialise.py:645`). `MostLoaded` excepts the three.
  A list that the document gives no entries is emptied by load_json even without
  `overwrite` (`serialise.py:704`, as line 669 is inside the loop over entries;
  `EntriesSpared` of `Loaders`); `RestKept` excepts it.
  As load_json takes the numbers out of the document, a second load of the same object
  finds the entries the first one lost: `ReloadChangesNothing` is about documents that
  give no number twice.
* Annotations of leaf-list entries stay at their index when the list changes
  (`NotesFollowEntries` of `DataclassTree`), what has annotations only may be written
  (`EncodedExists`), and some values of unions are not made JSON (`EncodedIsJson`).
* A mandatory leaf is reported whatever its `when` says (`pybind_dataclass.py:1960`), run
  `misjudged`; one of bits never is. `ReportedExactly` excepts both.
* Python's sets take `True` for 1 and no bits value: validation may report `[1, True]`
  and may raise `TypeError` on a list keyed by bits (`pybind_dataclass.py:1831`).
* Positions in predicates below several nodes are counted over all of them, and a union
  may have one node twice, so that `count(l | l)` may be 4 for two nodes
  (`PositionsRight` and `UnionOnce` of `XPathEval`, `pybind_dataclass.py:941`).
* `floor()` and `ceiling()` of NaN raise out of `validate_tree` (`:1198`, `:1202`);
  `substring-after()` of an empty text is empty (`:1179`); a quotient by zero is NaN
  (`:1330`).
* `derived-from()` compares with the text of the expression, whose prefix is not made a
  module name although the comment at `:1266` says so (`PrefixesNormalized` of
  `IdentitySpellings`).
* An identity of another module with the same name may take the bare spelling of the
  leaf's own module, which is then refused (`OwnBareDecodes`).
* Expressions compare the text that `_xnode_string` (`:641`) makes of a leaf's value, and
  the predicates of identifiers that of `_ii_value_text` (`:1484`), which writes bits,
  binaries and `empty` as Python does. Neither need be YANG's canonical text, and an
  identity keeps the spelling it was given. The models begin at these texts.
* A leaf of type identityref equals a text by = and != if the local names do, whatever the
  modules (`_xnode_equals_string`, `:662`), so that identities of one name in two modules
  are not told apart; two leaves are compared as they are spelled (`:974`).
  `EvaluatesRight` takes the former over (`SameText` of `XPathEval`), in predicates as well.
* An instance-identifier is looked up in every root under the Python name of the first
  (`:2113`), and does not find an empty presence container that is marked (`:2132`;
  `NoneMissing` of `InstanceIdentifiers`). A bits leaf is an object that is always there:
  one with no bit set passes as an instance (`:2174`; `OnlyThere`), and its bits pass as
  nodes of the schema (`:2126`), of which no instance is found. `JudgedRight` excepts these.

## Proofs

TLAPS proves what follows for every value of the constants that satisfies the modules'
assumptions and, where a theorem has some, its hypotheses. Each invariant is proved
by one that is inductive, and what that adds is where the argument is.

### Containers

`ContainerTreeProofs`: `TypeCorrect`, `ParentsMatch`, `PresenceCorrect`,
`ChangedCorrect`, `ChoicesCorrect`. `Shape` is the invariant about objects: types,
every slot holds an existing object whose `_parent` is the slot's, the holder of an
object exists, an object that does not exist is as a constructor leaves it, and the
running `_set` is that of an object at or above the written one. The flags are then
inductive once they are stated for the middle of a setter: what is marked below the
object whose `_set` is running is not yet marked above it. For choices, the invariant
adds that the call that reaches an object carries the choice of the element it came
from, which is true of elements with no choice below (`Enforced`).

In the same module: `TreeImplementsConfig`, the refinement of `ConfigTree`, and with it
`CasesNeverCoexist` and `WritesSpareTheRest`. They are about schemas that are
`Plain`, as that of the run is; each part of this is needed:

* `OneChoiceUp`: no container that is a case member has another one inside. The run
  `container_nested_choice` shows what happens otherwise.
* `NamesApart`: a choice has another name than those of the containers above, as the
  climbing `_set` knows it by its name only (`yangtypes.py:1114`).
* `CopiesUncleared`: the program calls `_set_present(False)` on no container inside one
  that it copies: what is set below would be hidden from the copy.

The data below an object is a recursive function of the slots, so this part of the
module first shows what it is and what changes of slots, leaves and objects do to it. The
invariant (`Refined`) then says, of a setter under way, that it climbs the path to its
node and carries the choice of a node it came by (`Aligned`), that it has erased rivals
only (`Kept`) and all of them but those it has still to come to (`Cleared`), and that
the operation it will be is the one it does (`Meant`); and when no setter is under way,
that the abstract state is the data (`Settled`).

### Lists

`ListRegistryProofs`: `TypeCorrect`, `EntriesFound`, `NothingRemovedIsFound`,
`CasesApart`, `EntriesKeptByWrites`, `TreeRefinesStore` and, as the refinement it is,
`TreeProgramsImplementStore`. The path of a member resolves to it because each entry is
registered under the text of the key it is stored under, after whatever was there; an
invariant relates `members`, `reg` and the texts. Those about paths assume that no two
keys have one text (`OneTextPerKey`), which the code needs and does not check. For the
refinement the program keeps to the calls that unregister, and then (`TreeInv`) what is
at the paths of a key is what is in the list, leaf by leaf, or nothing. This assumes that
the unset value of a leaf is none of its values (`Null \notin Values`): the registry
keeps a leaf that equals the new one (`xpathhelper.py:247`), and one that is set to what
unset leaves read as would be taken for unset.

### Resolution

`IdentityResolutionProofs`: `BasesComeFirst`, `DefinitionsKept` and
`TablesHaveAllDerived`, the last for identities with distinct names, as plain names share
tables. The list of children of an identity that has been extended holds all that is
derived from it, since those it takes its own from came before.

`TypedefResolutionProofs`: `UsesComeFirst`, for all limits and all clashes of names;
`MadeAsNamed`, if typedefs have distinct names and share none with an identity;
`SoundOnesKept`, if there is at most one typedef more than there are tries, of which the
code has 1000 (`pybind.py:551`). A typedef that can be resolved has a height, the longest
chain of definitions below it, and heights are less than the number of typedefs; the
queue is gone through in rounds, so that counts of tries differ by one at most along it,
and a typedef of height n is not put back more than n times.

### Values

`ValueProofs`, on `ValuePrograms`:

* Leaf-lists: `TypeCorrect`, `NothingTwice`, `CasesApart`, for every type of members and
  every sequence of calls, in the middle of an assignment or `extend`, too. That no exact
  value is twice is inductive for the members and, beside them, for what a running
  assignment has collected (`Once`); that a value which is not found as it is passed is
  new only if it has one form is where the exception comes from.
* Restricted types: `NoClassPassedOver`. Objects are made of the last class and then of
  each base; the invariant says which class's tests the attribute of each class holds at
  that moment, and that each `__new__` that has returned has found a test the value
  passes. It assumes that classes are made as the plugin makes them (`ChainsAssumption`).
* References: `ReadAsSet`. The invariant adds what keeps the targets apart: of entries,
  each key is registered once, and a key leaf has its key.
* Loaders: `LoadedAsGiven`, `RestSpared`, `GoodOnesLoad`, `LoadedOnceOrTwice`, `OrderKept`,
  for documents of any length, with lists and leaf-lists of any length, any number of
  loads in a row, each in any format with any flags. `LoadInv` is the invariant: entries
  stand apart under their keys and numbers (`Apart`); each member that has been gone
  through is in the tree, or among what is lost (`Progress`), and of the running one as
  much as has been gone through; if the document was loaded just before, all of it is
  there already and a step changes nothing (`AgainFull`); and a list that was empty has
  the first entries of those in order (`InOrder`), which is shown from what sorting the
  numbers gives. It assumes that a document has no name and no key twice, being a
  dictionary (`DocumentsAssumption`), and that no two keys are one number
  (`NumbersAssumption`).
* `ValuesOfTheirTypes`, for all of them.

### Dataclass bindings

`DataclassProofs`, on `DataclassPrograms`:

* `ListsAreJudged`, for lists and leaf-lists of any length with any bounds: too few, too
  many, an entry without a key, and duplicates are reported where they are and nowhere else.
  The sets hold what the entries before have, errors are those the sets gave;
  `OneToPython` says when two tuples are one to a set. It assumes that entries are what the code makes of them (`WellFormed`:
  tuples of one length, the key of an element is the element).
* `TreesAreJudged`: `ReportedExactly`, for every schema, whatever is nested in what. The
  reference looks down from the root, the walk comes up from the last node, so the
  invariant (`ValidInv`) says of a node walked what would be right if it turned out to
  have to be there: what it leaves pending is required if it is live, and a guarded
  requirement holds what the guarding container left (`Sound`); and all of that has been
  seen to, or goes up (`Complete`), where a set of guarding containers stands for those
  that have been resolved. In the end, by induction from the root, what an empty container
  leaves pending has arrived (`EmptyDelivered`). It assumes of the schema that a field comes
  after the node it is in (`WellFormed`). `HasData` and `Live` are recursive, one from the
  leaves up and one from the root down; `RecursionByRank` gives that they are what their
  definitions say.
* `IdentitiesAreMeant`: `IdentitiesMeant`, for any identities. Whatever is derived from
  what was gone into is on the stack or was gone into, and the table has the spellings of
  what was gone into, each meaning one that has it (`SpellInv`); all derived identities
  are the least set that is closed so (`DerivedAre`), so none is missing once the stack is
  empty. `derived-from()` adds one base at a time and stops when there is none left, which
  is within as many steps as there are identities (`PassedIs`): it has then gone through
  exactly the ancestors. It assumes that an identity comes after its bases and that none
  in a module have the same name (`WellFormed`).
* `IdentifiersAreJudged`: `JudgedRight`, for any schema, trees and identifier. The code
  keeps classes and objects, the reference schema nodes and instances; the invariant
  (`Tracked`) says that the class is that of the one node the steps gone down mean, that
  each instance they denote is among the objects, unless it is an empty container, and that
  each object is an instance, unless roots share a name. A bits leaf is no object to either,
  but has a class: its bits are among the schema nodes of both, and no object holds one.
  That an unset one counts as found is what `UnsetAt` excepts, at the last step. A step keeps it because there is
  one field of a name in what it is looked up in (`TakenIs`), because what the predicates
  leave one after the other is what meets them all (`LeftIs`) and because an empty container
  holds no instance (`EmptyHolds`). It assumes of the schema that a module names a node
  once, of objects that they hold what their class says, and of a step that a position is
  its only predicate, as the grammar of identifiers has it (`WellFormed`).
* `TreesComeBack`: `RoundTrip` holds of every tree that has the types of its fields
  (`TypeCorrect`). A value of a single type comes back by the converter of that type, one
  of a union as the first member makes it that takes its text, which is what
  `Unambiguous` and `Narrow` are needed for; a container comes back if it exists or has no
  annotations; the annotations of entries come back up to the last entry that has one,
  and after it there are none. It assumes that a type which is no union is one type
  (`TypesAssumption`) and that `None` and the sign for a refused value are not themselves
  values (`ValuesAssumption`).

### Expressions

`ExpressionProofs`, on `DataclassPrograms`:

* `ExpressionsEvaluateRight`: `EvaluatesRight`, for any data, expression and context. The
  evaluator has lists of `_XNode`s, the reference sets of nodes, reached from one node at a
  time. The invariant (`EvalInv`) says that each `_XNode` stands below the one of its
  parent (`ObjsOK`); that the list has the nodes the steps so far lead to, and in the
  middle of a step those its predicates have left (`Led`); and that each argument evaluated
  has the nodes it denotes (`Evaluated`). While the queue of `//` is gone through, every
  node below is passed or below one that is to come (`Covers`), whichever `_XNode`s the
  list held before. A position counted in the list is the one XPath counts because the
  list, unless nodes have been merged, comes from one node and is in document order
  (`CountedRight`). A predicate on children is the comparison of those nodes with a value
  (`ChildrenMeant`). A comparison is decided by the first pair of strings that compares, or
  left out at the first node without a string (`NodesWithNodesIs`, `NodesWithValueIs`), and
  is that of the texts, of local names where the leaf is an identity, or of numbers or
  Booleans (`OneComparesIs`, `PathComparedIs`).
  `Descendants` and `Sets` are recursive functions; upwards induction over the tree and
  `FoldExists` show that they are what their definitions say.
* `PathsHaveNodesOnce`: `NodesOnce`, for any path with one `//` or none. That the list has
  no node twice is not inductive: two `_XNode`s below different ones of the same node
  would be of one node as well, and `..` leads to `_XNode`s made long before, which it tells
  apart by identity. The invariant (`OnceInv`) therefore is about all levels above the list,
  the parents, their parents and so on up to the document: on none of them does a node have
  two `_XNode`s (`Levels`). A step to children or parents moves by one level (`ChildOnce`,
  `ParentOnce`). For `//` the levels have to be the depths in the tree (`Even`): what is
  passed or queued is then at or below the depth it began at, and is of that level or
  below something passed (`Falling`), so that no child added is there yet. Afterwards all
  of it counts as one level, together with what is above where it began (`FallEnds`).
  Those levels are no depths any more, and a second `//` finds nodes twice, as the code does.

They assume that nodes are numbered in document order (`UpAssumption`), that steps are those
of the grammar, and that the context is the last of a line of `_XNode`s down from the
document (`WellFormed`), which is how `validate_tree` comes to it.

### Lemmas on data

`DataLemmas` has what popping and appending do to a sequence, and in place of the
induction theorems of the library, which take an operator, induction over a set of
numbers (`NumbersInduction`): what holds of all numbers is stated as a set that holds
them. From it come functions defined by recursion (`RecursionOnNumbers`; `RecursionByRank` where
it goes from a node to others of lower rank), sets that grow
until they are closed (`GrowthCloses`, for what is derived or sound), folds over
sequences (`FoldExists`), what is sifted from one (`SiftedFacts`), and ranks.

The assumptions are those of the modules on their constants: the schema is a tree,
a copied container has no choice inside, native keys and members convert to themselves,
every definition is in the queue, and those named above. TLC evaluates them in the runs.

### Only model-checked

* What ends (`Terminates`, `Ends`): liveness is out of the prover's reach.
* `ExpressionsMeant`: the parser and the calls are recursive operators, or are compared
  with references that are, and where there is one the SMT solver is not available.
* `MCTypeOK`, the types of all the programs of `MCDataclasses` at once.

## Not modelled

The serialisers, `PybindBase` and the small value types read or hold values and change
nothing else; the generators of code emit text. Of what is modelled are left out:

* generated classes: extension methods, metadata, `load=True` (it lets a key leaf of
  an entry be set), a choice directly in a case, lists with several keys or none;
* types: what a range, a length or a pattern computes, decimals of a precision, the
  numbers of enumerations;
* loaders: the choice of the class by the document, metadata, files, compound keys;
* dataclass bindings: patterns and `re-match()`, unions with leafref members, `data_path()`,
  `normalize-space()`, `local-name()`, and how numbers are written as text;
* the expressions of the generated classes' leafrefs, which lxml evaluates.
