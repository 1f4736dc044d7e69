-------------------------------- MODULE Vault --------------------------------
(***************************************************************************)
(* The vault (src/vault/) under /factory secret: values sealed in a table    *)
(* under keys derived from one master in the system's keyring, generated at  *)
(* first use; secrets bound to the placeholders of a seed; export, import,   *)
(* and the scrubbing of a file.                                             *)
(*                                                                          *)
(* A command opens the vault, reads the table at once and awaits the keyring *)
(* before it writes; several sessions run commands. A sealed value is the    *)
(* value with the number of the master it was sealed under; another master   *)
(* does not open it. Every value that is set is a new one.                   *)
(*                                                                          *)
(* A definition whose comment begins with "Defect" is wrong on purpose and  *)
(* unused: the properties are tested by putting it in place of the next.    *)
(***************************************************************************)
EXTENDS Naturals, Sequences, FiniteSets

CONSTANTS
  Sessions,
  Placeholders,   \* of the seed
  Commands        \* bound: commands given

Names == {"scoped", "global"}   \* a secret of the repository, and one of all

VARIABLES
  master,     \* the keyring's: its number, or none
  store,      \* name -> its row
  seed,       \* the bindings in the seed's file, and whether it says all are bound
  manifest,   \* and what the manifest beside it says
  file,       \* the values a file shows that may be scrubbed
  envelope,   \* what was exported: name -> value
  command,       \* session -> the command it runs
  past        \* history, for the properties and the bounds only

vars == <<master, store, seed, manifest, file, envelope, command, past>>

NoMaster == 0
NoRow    == [is |-> "none"]
Row(value, key, created, rotated) ==
  [is |-> "row", value |-> value, key |-> key, created |-> created, rotated |-> rotated]
Json(bindings, bound) == [is |-> "json", bindings |-> bindings, bound |-> bound]
Torn    == [Json(<<>>, FALSE) EXCEPT !.is = "torn"]
Unbound == Json(<<>>, FALSE)
(* A function with one more argument, or another value of it.                *)
With(f, x, value) == [y \in DOMAIN f \cup {x} |-> IF y = x THEN value ELSE f[y]]

AtRest  == [pc |-> "idle", op |-> "none", name |-> "none", value |-> 0, key |-> NoMaster, then |-> "none",
            row |-> NoRow, todo |-> <<>>, got |-> <<>>, for |-> "none", copy |-> <<>>, text |-> {}, shown |-> {}]

(* A new vault, or one that has both secrets and may have been exported.      *)
Earlier(n) == Commands + (IF n = "scoped" THEN 1 ELSE 2)
Fresh == [n \in Names |-> NoRow]
Used(key) == [n \in Names |-> Row(Earlier(n), key, Earlier(n), FALSE)]

Init ==
  /\ \/ store = Fresh /\ master = NoMaster /\ envelope = <<>>
     \/ store = Used(1) /\ master = 1 /\ envelope \in {<<>>, [n \in Names |-> Earlier(n)]}
  /\ seed = Unbound /\ manifest = Unbound
  /\ file = {}
  /\ command = [p \in Sessions |-> AtRest]
  /\ past = [given |-> 0, masters |-> master, raced |-> FALSE, overlapped |-> {}, removed |-> {}, binds |-> TRUE, left |-> {},
             meant |-> IF store = Fresh THEN Fresh ELSE Used(NoMaster)]

-----------------------------------------------------------------------------
(* Steps of a command.                                                     *)

Goto(p, point)  == command' = [command EXCEPT ![p].pc = point]
Ends(p)         == command' = [command EXCEPT ![p] = AtRest]
Writes(op)      == op \in {"set", "rotate", "import", "bindSet"}
Sealing(n)      == {p \in Sessions : command[p].pc # "idle" /\ Writes(command[p].op) /\ command[p].name = n
                                     /\ command[p].then = "put"}
Binding         == {p \in Sessions : command[p].pc \in {"seedRead", "seedOpen", "seedWrite", "manifest"}}

(* A command is given, and opens the vault.                                  *)
openVault(p, op, name, for) ==
  /\ command[p].pc = "idle" /\ past.given < Commands
  /\ past' = [past EXCEPT !.given = @ + 1]
  /\ command' = [command EXCEPT ![p] = [AtRest EXCEPT !.pc = "master", !.op = op, !.name = name, !.value = past.given + 1,
                                                !.then = "begin", !.for = for]]
  /\ UNCHANGED <<master, store, seed, manifest, file, envelope>>

(* ensureMaster: the keyring is asked, and a new master stored if it has none.*)
(* Defect: it is not asked.                                                  *)
GetMasterNever(p) ==
  /\ command[p].pc = "master"
  /\ command' = [command EXCEPT ![p].pc = "generated"]
  /\ UNCHANGED <<master, store, seed, manifest, file, envelope, past>>

GetMaster(p) ==
  /\ command[p].pc = "master"
  /\ command' = [command EXCEPT ![p].pc = IF master = NoMaster THEN "generated" ELSE command[p].then, ![p].key = master]
  /\ UNCHANGED <<master, store, seed, manifest, file, envelope, past>>

SetMaster(p) ==
  LET new == past.masters + 1
  IN  /\ command[p].pc = "generated"
      /\ master' = new
      /\ command' = [command EXCEPT ![p].pc = command[p].then, ![p].key = new]
      /\ past' = [past EXCEPT !.masters = new, !.raced = @ \/ \E q \in Sessions \ {p} : command[q].pc = "generated"]
      /\ UNCHANGED <<store, seed, manifest, file, envelope>>

(* set, rotate and each entry of an import: the row is read, then sealed.     *)
Load(p) ==
  LET n == command[p].name
  IN  /\ command[p].pc = "begin" /\ Writes(command[p].op)
      /\ IF command[p].op = "rotate" /\ store[n] = NoRow
         THEN Ends(p) /\ UNCHANGED past
         ELSE /\ command' = [command EXCEPT ![p].pc = "master", ![p].then = "put", ![p].row = store[n]]
              /\ past' = [past EXCEPT !.overlapped = @ \cup (IF Sealing(n) = {} THEN {} ELSE {n})]
      /\ UNCHANGED <<master, store, seed, manifest, file, envelope>>

(* The row keeps when it was made, and that it was once rotated.              *)
(* Defect: only a rotation tells.                                            *)
SealedForgetful(p, row, key) ==
  Row(command[p].value, key, IF row = NoRow THEN command[p].value ELSE row.created, command[p].op = "rotate")

Sealed(p, row, key) ==
  Row(command[p].value, key,
      IF row = NoRow THEN command[p].value ELSE row.created,
      command[p].op = "rotate" \/ (row # NoRow /\ row.rotated))

(* Values that leave the table are no longer a scrub's to find.              *)
Kept(procs, rows) ==
  LET values == {rows[n].value : n \in {m \in Names : rows[m] # NoRow}}
  IN  [q \in Sessions |-> [procs[q] EXCEPT !.shown = @ \cap values]]

(* After the last entry of an import the command ends, a bind goes on.        *)
AfterPut(p) ==
  LET rest == Tail(command[p].todo)
  IN  CASE command[p].op = "import" /\ rest # <<>> ->
             [command EXCEPT ![p] = [@ EXCEPT !.pc = "begin", !.then = "begin", !.todo = rest,
                                           !.name = Head(rest), !.value = command[p].got[Head(rest)]]]
        [] command[p].op = "bindSet" -> [command EXCEPT ![p].pc = "seedRead", ![p].then = "none"]
        [] OTHER -> [command EXCEPT ![p] = AtRest]

Put(p) ==
  LET n == command[p].name
  IN  /\ command[p].pc = "put"
      /\ store' = [store EXCEPT ![n] = Sealed(p, command[p].row, command[p].key)]
      /\ past' = [past EXCEPT !.meant[n] = Row(command[p].value, NoMaster, IF @ = NoRow THEN command[p].value ELSE @.created,
                                               command[p].op = "rotate" \/ (@ # NoRow /\ @.rotated))]
      /\ command' = Kept(AfterPut(p), store')
      /\ UNCHANGED <<master, seed, manifest, file, envelope>>

rm(p) ==
  LET n == command[p].name
  IN  /\ command[p].pc = "begin" /\ command[p].op = "rm"
      /\ store' = [store EXCEPT ![n] = NoRow]
      /\ past' = [past EXCEPT !.meant[n] = NoRow, !.removed = @ \cup {n},
                              !.overlapped = @ \cup (IF Sealing(n) = {} THEN {} ELSE {n})]
      /\ command' = Kept([command EXCEPT ![p] = AtRest], store')
      /\ UNCHANGED <<master, seed, manifest, file, envelope>>

-----------------------------------------------------------------------------
(* Commands that read values.                                              *)

Stored == {n \in Names : store[n] # NoRow}
InOrder(names) ==
  CASE names = {} -> <<>>
    [] names = Names -> <<"global", "scoped">>
    [] OTHER -> <<CHOOSE n \in names : TRUE>>

(* What is to be read: all names that are listed, or the one to bind.         *)
(* importVault reads the envelope instead.                                   *)
List(p) ==
  LET op == command[p].op
  IN  /\ command[p].pc = "begin" /\ op \in {"export", "scrub", "bindTo"}
      /\ command' = [command EXCEPT ![p] =
           [@ EXCEPT !.pc = "read", !.todo = IF op = "bindTo" THEN <<command[p].name>> ELSE InOrder(Stored),
                     !.text = IF op = "scrub" THEN file ELSE {},
                     !.shown = IF op = "scrub" THEN file \cap {store[n].value : n \in Stored} ELSE {}]]
      /\ UNCHANGED <<master, store, seed, manifest, file, envelope, past>>

Unpack(p) ==
  /\ command[p].pc = "begin" /\ command[p].op = "unpack"
  /\ IF envelope = <<>> THEN Ends(p)
     ELSE LET names == InOrder(DOMAIN envelope)
          IN  command' = [command EXCEPT ![p].op = "import", ![p].todo = names, ![p].got = envelope,
                                   ![p].name = Head(names), ![p].value = envelope[Head(names)]]
  /\ UNCHANGED <<master, store, seed, manifest, file, envelope, past>>

(* A value that cannot be read: a scrub goes on without it, the others end.   *)
Unread(p) ==
  IF command[p].op = "scrub" THEN command' = [command EXCEPT ![p].pc = "read", ![p].todo = Tail(@)] ELSE Ends(p)

(* getPlaintext: the row, then the master, then the value.                    *)
ReadRow(p) ==
  /\ command[p].pc = "read" /\ command[p].todo # <<>>
  /\ LET row == store[Head(command[p].todo)]
     IN  IF row = NoRow THEN Unread(p)
         ELSE command' = [command EXCEPT ![p].pc = "master", ![p].then = "decrypt", ![p].row = row]
  /\ UNCHANGED <<master, store, seed, manifest, file, envelope, past>>

Decrypt(p) ==
  /\ command[p].pc = "decrypt"
  /\ IF command[p].row.key # command[p].key THEN Unread(p)
     ELSE command' = [command EXCEPT ![p].pc = "read", ![p].todo = Tail(@), ![p].got = With(@, Head(command[p].todo), command[p].row.value)]
  /\ UNCHANGED <<master, store, seed, manifest, file, envelope, past>>

GotAll(p, op) == command[p].pc = "read" /\ command[p].todo = <<>> /\ command[p].op = op
Values(f) == {f[n] : n \in DOMAIN f}

exportVault(p) ==
  /\ GotAll(p, "export")
  /\ envelope' = command[p].got
  /\ Ends(p)
  /\ UNCHANGED <<master, store, seed, manifest, file, past>>

(* Defect: only the first value is looked for.                               *)
ScrubbedOfOne(text, got) == text \ (IF "global" \in DOMAIN got THEN {got["global"]} ELSE {})

Scrubbed(text, got) == text \ Values(got)

(* scrubFile writes the text it read, scrubbed, if it found a value in it.    *)
scrubFile(p) ==
  LET clean == Scrubbed(command[p].text, command[p].got)
  IN  /\ GotAll(p, "scrub")
      /\ file' = IF clean = command[p].text THEN file ELSE clean
      /\ past' = [past EXCEPT !.left = @ \cup (command[p].shown \cap file')]
      /\ Ends(p)
      /\ UNCHANGED <<master, store, seed, manifest, envelope>>

(* A run writes a value it was given into the file: between commands, or while  *)
(* a scrub is under way, the others do not look at the file.                  *)
Show ==
  /\ \A p \in Sessions : command[p].op \in {"none", "scrub"}
  /\ \E n \in Stored : file' = file \cup {store[n].value}
  /\ UNCHANGED <<master, store, seed, manifest, envelope, command, past>>

-----------------------------------------------------------------------------
(* bindSecret, after the value was set or read.                              *)

(* Defect: one placeholder bound is enough.                                  *)
secretsBoundSome(bindings) == DOMAIN bindings \cap Placeholders # {}

secretsBound(bindings) == Placeholders \subseteq DOMAIN bindings

BindReady(p) ==
  /\ GotAll(p, "bindTo")
  /\ Goto(p, "seedRead")
  /\ UNCHANGED <<master, store, seed, manifest, file, envelope, past>>

(* The seed's file is read; one that was cut off ends the command.            *)
ReadSeed(p) ==
  /\ command[p].pc = "seedRead"
  /\ IF seed.is = "torn" \/ \E q \in Sessions : command[q].pc = "seedWrite" THEN Ends(p)
     ELSE command' = [command EXCEPT ![p].pc = "seedOpen", ![p].copy = With(seed.bindings, command[p].for, command[p].name)]
  /\ past' = [past EXCEPT !.binds = @ /\ Binding \subseteq {p}]
  /\ UNCHANGED <<master, store, seed, manifest, file, envelope>>

TruncateSeed(p) ==
  /\ command[p].pc = "seedOpen" /\ Goto(p, "seedWrite")
  /\ UNCHANGED <<master, store, seed, manifest, file, envelope, past>>

WriteSeed(p) ==
  /\ command[p].pc = "seedWrite" /\ Goto(p, "manifest")
  /\ seed' = Json(command[p].copy, secretsBound(command[p].copy))
  /\ UNCHANGED <<master, store, manifest, file, envelope, past>>

WriteManifest(p) ==
  /\ command[p].pc = "manifest" /\ Ends(p)
  /\ manifest' = Json(command[p].copy, secretsBound(command[p].copy))
  /\ UNCHANGED <<master, store, seed, file, envelope, past>>

-----------------------------------------------------------------------------
Crash(p) ==
  /\ command[p].pc # "idle"
  /\ seed' = IF command[p].pc = "seedWrite" THEN Torn ELSE seed
  /\ past' = [past EXCEPT !.binds = @ /\ p \notin Binding]
  /\ Ends(p)
  /\ UNCHANGED <<master, store, manifest, file, envelope>>

Begin(p) ==
  \/ \E op \in {"set", "rotate", "rm"}, n \in Names : openVault(p, op, n, "none")
  \/ \E op \in {"export", "unpack", "scrub"} : openVault(p, op, "none", "none")
  \/ \E op \in {"bindTo", "bindSet"}, n \in Names, for \in Placeholders : openVault(p, op, n, for)

Next ==
  \/ \E p \in Sessions :
       \/ Begin(p) \/ GetMaster(p) \/ SetMaster(p) \/ Load(p) \/ Put(p) \/ rm(p)
       \/ List(p) \/ Unpack(p) \/ ReadRow(p) \/ Decrypt(p) \/ exportVault(p) \/ scrubFile(p)
       \/ BindReady(p) \/ ReadSeed(p) \/ TruncateSeed(p) \/ WriteSeed(p) \/ WriteManifest(p) \/ Crash(p)
  \/ Show

Spec == Init /\ [][Next]_vars

-----------------------------------------------------------------------------
(* A row that the master does not open comes only of two commands that both    *)
(* found no master.                                                          *)
Readable == ~past.raced => \A n \in Stored : store[n].key = master

(* A name no two commands wrote at a time holds what was set last, from when it *)
(* was made, and tells whether it was rotated since.                         *)
AsMeant ==
  \A n \in Names \ past.overlapped :
    IF past.meant[n] = NoRow THEN store[n] = NoRow
    ELSE store[n] # NoRow /\ [store[n] EXCEPT !.key = NoMaster] = past.meant[n]

(* Unless two binds of the seed crossed or one died, seed and manifest agree,   *)
(* say they are bound when every placeholder is, and name secrets the vault had.*)
BoundRight ==
  past.binds /\ Binding = {} =>
    /\ seed = manifest
    /\ seed.bound <=> Placeholders \subseteq DOMAIN seed.bindings
    /\ Values(seed.bindings) \subseteq Stored \cup past.removed

(* A value that was shown and in the vault for as long as a scrub took is not   *)
(* left behind by it, unless masters were lost.                               *)
NothingLeft == ~past.raced => past.left = {}

(* So much holds of the vault, whatever sessions do at once                  *)
(* (vault/vault.ts:121, 60-100, bind.ts:53-67, scrub.ts:106-131).               *)
SecretsHold == Readable /\ AsMeant /\ BoundRight /\ NothingLeft
=============================================================================
