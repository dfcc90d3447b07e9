----------------------------- MODULE Singletons -----------------------------
(***************************************************************************)
(* The one settings document of each workshop and those who read it        *)
(* (app-json-store.ts, and the services that query its table themselves).  *)
(* Older versions kept one row under the id "default" for everybody; a     *)
(* workshop that owns it moves to a row of its own when it first saves.    *)
(* Some readers know both rows, some only the old one, and the studio's    *)
(* shell keeps what it read for a minute.                                  *)
(*                                                                         *)
(* What a page picks out of the document is left out.  A document read is  *)
(* reply with the workshop whose row it was, or as Null, the defaults.     *)
(***************************************************************************)
EXTENDS Requests

CONSTANTS
  Workshops,
  Texts,        \* what a document may say
  Lifetime,     \* how long the shell keeps what it read
  MaxNow        \* bound: units of time that pass

Document == Workshops \X Texts

ASSUME SingletonAssumption == Lifetime \in Nat /\ MaxNow \in Nat /\ Null \notin Document

VARIABLES
  legacy,  \* the "default" row: [org, doc], or Null
  ownRow,     \* per workshop: the document in its own row, or Null
  shell,   \* per workshop: [doc, until], what the shell has cached, or Null
  now,
  lastHeld,    \* ghost: per workshop, the last time each document was its own
  during,  \* ghost, per client: the documents there were since its request came
  reply    \* the answer this step gave: [client, reader, shop, doc], or Null

singletonVars == <<legacy, ownRow, shell, now, lastHeld, during, reply>>

OfLegacy(s) == IF legacy # Null /\ legacy.org = s THEN <<s, legacy.doc>> ELSE Null
OfOwn(s)    == IF ownRow[s] # Null THEN <<s, ownRow[s]>> ELSE Null

\* A workshop never keeps both rows, so the newest of them is the one it has.
TheirDoc(s) == IF ownRow[s] # Null THEN OfOwn(s) ELSE OfLegacy(s)

SingletonInit ==
  /\ legacy \in {Null} \cup [org : Workshops, doc : Texts]
  /\ ownRow = [s \in Workshops |-> Null]
  /\ shell = [s \in Workshops |-> Null]
  /\ now = 0
  /\ lastHeld = [s \in Workshops |-> [d \in {TheirDoc(s)} |-> 0]]
  /\ during = [c \in Clients |-> {}]
  /\ reply = Null

-----------------------------------------------------------------------------
(* PUT and DELETE of the document                                           *)

SaveOne(c) ==
  /\ \E s \in Workshops, d \in Texts : Arrive(c, "one.find", [shop |-> s, doc |-> d])
  /\ UNCHANGED <<legacy, ownRow>>

FindOne(c) ==
  /\ pc[c] = "one.find"
  /\ Goto(c, IF ownRow[req[c].shop] = Null THEN "one.legacy" ELSE "one.write", req[c])
  /\ UNCHANGED <<legacy, ownRow>>

FindLegacy(c) ==
  /\ pc[c] = "one.legacy"
  /\ Goto(c, IF OfLegacy(req[c].shop) = Null THEN "one.write" ELSE "one.drop", req[c])
  /\ UNCHANGED <<legacy, ownRow>>

\* The delete fails, and the request with it, when another has migrated the row.
DropLegacy(c) ==
  /\ pc[c] = "one.drop"
  /\ legacy' = Null
  /\ IF legacy = Null THEN Answer(c) ELSE Goto(c, "one.write", req[c])
  /\ UNCHANGED ownRow

WriteOne(c) ==
  /\ pc[c] = "one.write"
  /\ ownRow' = [ownRow EXCEPT ![req[c].shop] = req[c].doc]
  /\ Answer(c)
  /\ UNCHANGED legacy

\* deleteCollectionItem takes the id as it is: "default" is the old row only.
RemoveLegacy(c) ==
  /\ AtOnce(c)
  /\ legacy # Null
  /\ legacy' = Null
  /\ UNCHANGED ownRow

RemoveOwn(c) ==
  /\ AtOnce(c)
  /\ \E s \in Workshops : ownRow[s] # Null /\ ownRow' = [ownRow EXCEPT ![s] = Null]
  /\ UNCHANGED legacy

SettingsWrite(c) ==
  /\ \/ SaveOne(c) \/ FindOne(c) \/ FindLegacy(c) \/ DropLegacy(c) \/ WriteOne(c)
     \/ RemoveLegacy(c) \/ RemoveOwn(c)
  /\ reply' = Null
  /\ UNCHANGED <<shell, now>>

-----------------------------------------------------------------------------
(* Readers                                                                  *)

Show(c, reader, s, doc) == reply' = [client |-> c, reader |-> reader, shop |-> s, doc |-> doc]

\* getCollectionItem: the workshop's own row, then the old one if it is theirs.
AskItem(c) ==
  /\ \E s \in Workshops : Arrive(c, "item.own", [shop |-> s])
  /\ reply' = Null

ItemOwn(c) ==
  LET s == req[c].shop IN
  /\ pc[c] = "item.own"
  /\ IF ownRow[s] # Null THEN Answer(c) /\ Show(c, "item", s, OfOwn(s))
     ELSE Goto(c, "item.legacy", req[c]) /\ reply' = Null

\* Mutant: whose the old row is is not asked.
LegacyRead_Anyones(s) == IF legacy = Null THEN Null ELSE <<legacy.org, legacy.doc>>

LegacyRead(s) == OfLegacy(s)

ItemLegacy(c) ==
  /\ pc[c] = "item.legacy"
  /\ Show(c, "item", req[c].shop, LegacyRead(req[c].shop))
  /\ Answer(c)

\* listCollectionItems: the newest, and once more the own row if that was old.
AskList(c) ==
  /\ \E s \in Workshops : Arrive(c, "list.newest", [shop |-> s])
  /\ reply' = Null

ListNewest(c) ==
  LET s == req[c].shop IN
  /\ pc[c] = "list.newest"
  /\ IF ownRow[s] = Null /\ OfLegacy(s) # Null
     THEN Goto(c, "list.own", [shop |-> s, found |-> OfLegacy(s)]) /\ reply' = Null
     ELSE Answer(c) /\ Show(c, "list", s, TheirDoc(s))

ListOwn(c) ==
  LET s == req[c].shop IN
  /\ pc[c] = "list.own"
  /\ Show(c, "list", s, IF ownRow[s] # Null THEN OfOwn(s) ELSE req[c].found)
  /\ Answer(c)

\* The login page of a tenant.
LoginPage(c) ==
  /\ AtOnce(c)
  /\ \E s \in Workshops : Show(c, "login", s, TheirDoc(s))

\* The workshop's name in a message to a customer.
MessageName(c) ==
  /\ AtOnce(c)
  /\ \E s \in Workshops : Show(c, "message", s, TheirDoc(s))

\* The customer's portal: the old row, if it is the workshop's.
Portal(c) ==
  /\ AtOnce(c)
  /\ \E s \in Workshops : Show(c, "portal", s, OfLegacy(s))

\* The public pages of workshop s: the old row, whosever it is.
PublicDoc == IF legacy = Null THEN Null ELSE <<legacy.org, legacy.doc>>

PublicInvoice(c) == AtOnce(c) /\ \E s \in Workshops : Show(c, "invoice", s, PublicDoc)
PublicLedger(c)  == AtOnce(c) /\ \E s \in Workshops : Show(c, "ledger", s, PublicDoc)
PublicPhotos(c)  == AtOnce(c) /\ \E s \in Workshops : Show(c, "photos", s, PublicDoc)

\* GET /api/public/branding, of a workshop or, without a slug, of nobody.
PublicBranding(c) ==
  \/ LoginPage(c)
  \/ AtOnce(c) /\ Show(c, "splash", Null, PublicDoc)

Reading(c) ==
  /\ \/ AskItem(c) \/ ItemOwn(c) \/ ItemLegacy(c)
     \/ AskList(c) \/ ListNewest(c) \/ ListOwn(c)
     \/ MessageName(c) \/ Portal(c)
     \/ PublicInvoice(c) \/ PublicLedger(c) \/ PublicPhotos(c) \/ PublicBranding(c)
  /\ UNCHANGED <<legacy, ownRow, shell, now>>

-----------------------------------------------------------------------------
(* The shell's cache (bootstrap.service.ts, simple-cache.ts)                 *)

\* Mutant: an entry is kept for good.
Cached_Forever(s) == shell[s] # Null

Cached(s) == shell[s] # Null /\ now <= shell[s].until

Shell(c) ==
  \E s \in Workshops :
    IF Cached(s)
    THEN /\ AtOnce(c)
         /\ Show(c, "shell", s, shell[s].doc)
    ELSE /\ Arrive(c, "shell.load", [shop |-> s])
         /\ reply' = Null

\* Two loads may overlap; each stores what it read.
ShellLoad(c) ==
  LET s == req[c].shop IN
  /\ pc[c] = "shell.load"
  /\ Goto(c, "shell.store", [shop |-> s, found |-> TheirDoc(s)])
  /\ reply' = Null
  /\ UNCHANGED shell

ShellStore(c) ==
  LET s == req[c].shop IN
  /\ pc[c] = "shell.store"
  /\ shell' = [shell EXCEPT ![s] = [doc |-> req[c].found, until |-> now + Lifetime]]
  /\ Show(c, "loaded", s, req[c].found)
  /\ Answer(c)

ShellStep(c) ==
  /\ \/ Shell(c) /\ UNCHANGED shell
     \/ ShellLoad(c) \/ ShellStore(c)
  /\ UNCHANGED <<legacy, ownRow, now>>

\* A query takes far less than the unit of time.
Tick ==
  /\ Quiet
  /\ now < MaxNow
  /\ now' = now + 1
  /\ reply' = Null
  /\ UNCHANGED <<requestVars, legacy, ownRow, shell>>

-----------------------------------------------------------------------------
SingletonStep ==
  /\ Tick \/ \E c \in Clients : SettingsWrite(c) \/ Reading(c) \/ ShellStep(c)
  /\ lastHeld' = [s \in Workshops |->
       [d \in DOMAIN lastHeld[s] \cup {TheirDoc(s)'} |->
          IF d = TheirDoc(s)' THEN now' ELSE lastHeld[s][d]]]
  /\ during' = [c \in Clients |->
       IF pc'[c] = "idle" THEN {}
       ELSE {<<s, TheirDoc(s)'>> : s \in Workshops} \cup
            (IF pc[c] = "idle" THEN {<<s, TheirDoc(s)>> : s \in Workshops} ELSE during[c])]

SingletonSpec == SingletonInit /\ RequestInit /\ [][SingletonStep]_<<singletonVars, requestVars>>

-----------------------------------------------------------------------------
(* Properties                                                               *)

SingletonTypeOK ==
  /\ legacy \in {Null} \cup [org : Workshops, doc : Texts]
  /\ ownRow \in [Workshops -> Texts \cup {Null}]
  /\ \A s \in Workshops :
       /\ shell[s] # Null => shell[s].doc \in Document \cup {Null} /\ shell[s].until \in Nat
       /\ DOMAIN lastHeld[s] \subseteq Document \cup {Null}
  /\ now \in 0..MaxNow
  /\ \A c \in Clients : during[c] \subseteq Workshops \X (Document \cup {Null})

Had(c, s, doc) == <<s, doc>> \in during[c] \/ doc = TheirDoc(s)

(* Who reads the settings of a workshop by its id is answered what they were *)
(* at some moment of the request, also while another request moves them from *)
(* the old row to their own: never another workshop's, never older ones      *)
(* (getCollectionItem and listCollectionItems, in two queries each).         *)
ReadsCurrent ==
  [][reply' # Null /\ reply'.reader \in {"item", "list", "login", "message", "loaded"} =>
       Had(reply'.client, reply'.shop, reply'.doc)
    ]_<<singletonVars, requestVars>>

(* The shell shows no branding that was given up longer ago than the         *)
(* lifetime of its cache, which no save clears (loadBranding).               *)
ShellLagsALifetime ==
  [][reply' # Null /\ reply'.reader = "shell" =>
       LET was == lastHeld[reply'.shop] IN
       reply'.doc \in DOMAIN was /\ now <= was[reply'.doc] + Lifetime
    ]_<<singletonVars, requestVars>>

(* A page of a workshop shows that workshop's settings or the defaults:      *)
(* "always persist under org-scoped entityId so tenants do not collide on    *)
(* "default"" (app-json-store.ts:279).                                       *)
TenantsDoNotCollide ==
  [][reply' # Null /\ reply'.shop # Null /\ reply'.doc # Null => reply'.doc[1] = reply'.shop
    ]_<<singletonVars, requestVars>>
=============================================================================
