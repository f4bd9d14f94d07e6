-------------------------------- MODULE Editor --------------------------------
(***************************************************************************)
(* The form of the terminal client in which an item is created or edited   *)
(* (internal/tui/editor.go), what its fields become on the way to the       *)
(* server (rows.go, adapter.go, the client's builders) and what is shown of  *)
(* them afterwards.  ctrl+t turns the form into that of the next kind, and  *)
(* carries over what both have.                                            *)
(*                                                                         *)
(* ctrl+s passes the id and the draft by value to a command: nothing it does *)
(* depends on the form any more, so that the command is one step here.  What *)
(* overlapping commands do to each other is in Session and Entities.       *)
(*                                                                         *)
(* A string is a member of Strings, a date as it is typed the sequence of    *)
(* the numbers in it, for the separators are one.  What a user types as a   *)
(* description is no JSON.                                                  *)
(***************************************************************************)
EXTENDS Integers, Sequences, FiniteSets

CONSTANTS
    Strings,
    Trimmed,        \* strings.TrimSpace
    BaseName,       \* safeFileName
    Numeral,        \* strconv.Atoi, for the strings it accepts
    Itoa,           \* strconv.Itoa, for the numbers these denote
    Typed,          \* what can be typed into each field
    Faults,         \* whether "fail" may happen
    Names,          \* bounds the names of the items
    MaxItems,       \* and their number
    None

Empty == ""

(* An item goes by its kind and its name. *)
Ids == {"text", "creds", "card"} \X Names

ASSUME EditorAssumption ==
    /\ Empty \in Strings
    /\ Trimmed \in [Strings -> Strings] /\ BaseName \in [Strings -> Strings]
    /\ \A s \in Strings : Trimmed[Trimmed[s]] = Trimmed[s]
    /\ Trimmed[Empty] = Empty
    /\ DOMAIN Numeral \subseteq Strings \ {Empty}
    /\ \A s \in DOMAIN Numeral : Trimmed[s] = s /\ Numeral[s] \in DOMAIN Itoa
    /\ \A n \in DOMAIN Itoa : Itoa[n] \in DOMAIN Numeral /\ Numeral[Itoa[n]] = n
    /\ "secret" \in DOMAIN Typed
    /\ \A field \in DOMAIN Typed :
        Typed[field] \subseteq IF field = "end" THEN Seq(Nat) ELSE Strings
    /\ Names \subseteq {Trimmed[s] : s \in Strings} \ {Empty}
    /\ None \notin Strings \cup Ids

VARIABLES
    stored,     \* the items of the account
    form,       \* the editor, None while it is closed
    status,     \* whether the line at the bottom says that a form has been saved
    opened,     \* history: the item, while the form is as it was opened
    secret,     \* history: the secret that was put into the form, as it was typed
    stripped    \* history: whether a kind that trims its fields has had it since

vars == <<stored, form, status, opened, secret, stripped>>

Blank(s) == Trimmed[s] = Empty

KindOf(id) == id[1]
NameOf(id) == id[2]

Kinds == {"text", "creds", "card", "binary"}

(* itemTypes, in the order of ctrl+t. *)
NextKind(k) ==
    CASE k = "text" -> "creds" [] k = "creds" -> "card"
      [] k = "card" -> "binary" [] k = "binary" -> "text"

Fields(k) ==
    CASE k = "text" -> {"title", "secret", "desc"}
      [] k = "creds" -> {"title", "login", "secret", "desc"}
      [] k = "card" -> {"title", "desc", "system", "number", "holder", "cvc", "end"}
      [] k = "binary" -> {"path"}

(***************************************************************************)
(* Dates.                                                                  *)
(***************************************************************************)
Leap(y) == y % 4 = 0 /\ (y % 100 # 0 \/ y % 400 = 0)
DaysIn(m, y) ==
    CASE m \in {4, 6, 9, 11} -> 30
      [] m = 2 -> IF Leap(y) THEN 29 ELSE 28
      [] OTHER -> 31

IsDate(d) ==
    /\ Len(d) = 3
    /\ d[2] \in 1..12 /\ d[3] \in 0..9999 /\ d[1] \in 1..DaysIn(d[2], d[3])

(* time.Date with day 0: the day before the first of the month, and month 13 is
   the first of the next year. *)
DayBefore(m, y) ==
    LET month == IF m = 1 THEN 12 ELSE m - 1
        year == IF m = 1 THEN y - 1 ELSE y IN <<DaysIn(month, year), month, year>>

SameMonth(m, y) == DayBefore(m, y)                                  \* mutant
LastDay(m, y) == IF m = 12 THEN DayBefore(1, y + 1) ELSE DayBefore(m + 1, y)

Century(y) == IF y < 100 THEN y + 2000 ELSE y

(* normalizeCardEndDate: the dates it makes of what is typed, none when it
   refuses. *)
Normalised(e) ==
    IF Len(e) = 3 THEN {d \in {e} : IsDate(d)}
    ELSE IF Len(e) = 2 /\ e[1] \in 1..12 /\ Century(e[2]) \in 2000..2099
         THEN {LastDay(e[1], Century(e[2]))}
         ELSE {}

(***************************************************************************)
(* Drafts.  Meta is the description, or the JSON of a card: a description   *)
(* is what cardDraftFromDraft takes it for, a card that has nothing else.   *)
(***************************************************************************)
Plain(d) == [desc |-> d, system |-> Empty, number |-> Empty, holder |-> Empty,
             cvc |-> Empty, end |-> <<>>]

Draft(k, t, l, s, m) == [type |-> k, title |-> t, login |-> l, secret |-> s, meta |-> m]

CardMeta(in) ==
    [desc |-> Trimmed[in.desc], system |-> Trimmed[in.system],
     number |-> Trimmed[in.number], holder |-> Trimmed[in.holder],
     cvc |-> Trimmed[in.cvc], end |-> in.end]

(* A secret is taken as it is, blanks and all. *)
TrimmedToo(s) == Trimmed[s]                                         \* mutant
Raw(s) == s

(* editorDraftFromInputs. *)
DraftOf(k, in) ==
    CASE k = "text" -> Draft(k, Trimmed[in.title], Empty, Raw(in.secret), Plain(Trimmed[in.desc]))
      [] k = "creds" -> Draft(k, Trimmed[in.title], Trimmed[in.login], Raw(in.secret),
                              Plain(Trimmed[in.desc]))
      [] k = "card" -> LET card == CardMeta(in) IN
                       Draft(k, Trimmed[in.title], card.number, card.cvc, card)
      [] k = "binary" -> Draft(k, BaseName[in.path], Empty, Trimmed[in.path], Plain(Empty))

(* fillEmptyCardRequiredFields. *)
Filled(d) ==
    [d.meta EXCEPT !.number = IF @ = Empty THEN d.login ELSE @,
                   !.cvc = IF @ = Empty THEN d.secret ELSE @]

TitleFirst(d) == IF d.title = Empty THEN d.secret ELSE d.title      \* mutant
PathOf(d) == IF d.secret = Empty THEN d.title ELSE d.secret

(* editorInputSpecs: the fields of the form of kind k that shows draft d. *)
InputsFor(k, d) ==
    LET card == Filled(d) IN
    CASE k = "text" -> [title |-> d.title, secret |-> d.secret, desc |-> d.meta.desc]
      [] k = "creds" -> [title |-> d.title, login |-> d.login, secret |-> d.secret,
                         desc |-> d.meta.desc]
      [] k = "card" -> [title |-> d.title, desc |-> card.desc, system |-> card.system,
                        number |-> card.number, holder |-> card.holder,
                        cvc |-> card.cvc, end |-> card.end]
      [] k = "binary" -> [path |-> PathOf(d)]

WithoutHolder(card) == {card.system, card.number, card.cvc}         \* mutant
Required(card) == {card.system, card.number, card.holder, card.cvc}

(* parseCardDraft: the cards it makes of a draft, none when it refuses. *)
Parsed(d) ==
    LET card == [Filled(d) EXCEPT !.desc = IF @ = Empty THEN d.title ELSE @] IN
    IF Empty \in Required(card) THEN {}
    ELSE {[card EXCEPT !.end = e] : e \in Normalised(card.end)}

SecretOnly(d) == d.title # Empty /\ ~Blank(d.secret)                \* mutant
ValidCreds(d) == d.title # Empty /\ d.login # Empty /\ ~Blank(d.secret)

(* validateDraft. *)
Valid(d) ==
    CASE d.type = "text" -> d.title # Empty /\ ~Blank(d.secret)
      [] d.type = "creds" -> ValidCreds(d)
      [] d.type = "card" -> d.title # Empty /\ Parsed(d) # {}
      [] d.type = "binary" -> ~Blank(d.secret)

(***************************************************************************)
(* The server's items: what CardCreate and the other calls of the client    *)
(* make of a draft, none when they refuse it, and what syncResultToItems     *)
(* makes of an item.                                                       *)
(***************************************************************************)
CardContents(d) ==
    {[system |-> c.system, number |-> c.number, holder |-> c.holder,
      cvc |-> Numeral[c.cvc], end |-> c.end, desc |-> c.desc] :
        c \in {p \in Parsed(d) : p.cvc \in DOMAIN Numeral}}

Contents(k, d) ==
    CASE k = "text" -> {[secret |-> d.secret, desc |-> d.meta.desc]}
      [] k = "creds" -> {[login |-> d.login, secret |-> d.secret, desc |-> d.meta.desc]}
      [] k = "card" -> CardContents(d)

(* newEditorInputsForItem. *)
ItemDraft(id, v) ==
    CASE KindOf(id) = "text" -> Draft("text", NameOf(id), Empty, v.secret, Plain(v.desc))
      [] KindOf(id) = "creds" -> Draft("creds", NameOf(id), v.login, v.secret, Plain(v.desc))
      [] KindOf(id) = "card" ->
            Draft("card", NameOf(id), v.number, Itoa[v.cvc],
                  [desc |-> v.desc, system |-> v.system, number |-> v.number,
                   holder |-> v.holder, cvc |-> Itoa[v.cvc], end |-> v.end])

Shown(id, v) == InputsFor(KindOf(id), ItemDraft(id, v))
Items == {id \in Ids : stored[id] # None}

(***************************************************************************)
(* The editor.                                                             *)
(***************************************************************************)
Init ==
    /\ stored = [id \in Ids |-> None]
    /\ form = None
    /\ status = "unsaved"
    /\ opened = None /\ secret = Empty /\ stripped = FALSE

(* What ctrl+s and ctrl+t take for the secret: as it is in the field of a text and
   of credentials, trimmed in that of a card and of a file. *)
SecretIn(f) == DraftOf(f.kind, f.in).secret
Strips == {"card", "binary"}

PutIn(k, s) == secret' = s /\ stripped' = (k \in Strips)
Closed == form' = None /\ opened' = None /\ secret' = Empty /\ stripped' = FALSE

Open(f) ==
    /\ form = None
    /\ form' = f
    /\ status' = "unsaved"
    /\ PutIn(f.kind, SecretIn(f))
    /\ UNCHANGED stored

OpenCreateEditor ==
    /\ Open([id |-> None, kind |-> "text",
             in |-> InputsFor("text", Draft("text", Empty, Empty, Empty, Plain(Empty)))])
    /\ opened' = None

(* The list can be older than the server: OtherClient may follow. *)
OpenEditEditor(id) ==
    /\ id \in Items
    /\ Open([id |-> id, kind |-> KindOf(id), in |-> Shown(id, stored[id])])
    /\ opened' = stored[id]

Type(field, s) ==
    /\ form # None /\ field \in Fields(form.kind)
    /\ form' = [form EXCEPT !.in[field] = s]
    /\ opened' = None
    /\ IF field \in {"secret", "cvc", "path"} THEN PutIn(form.kind, s)
       ELSE UNCHANGED <<secret, stripped>>
    /\ UNCHANGED <<stored, status>>

(* nextEditorType. *)
CtrlT ==
    /\ form # None
    /\ LET k == NextKind(form.kind) IN
        /\ form' = [id |-> form.id, kind |-> k, in |-> InputsFor(k, DraftOf(form.kind, form.in))]
        /\ stripped' = (stripped \/ k \in Strips)
    /\ opened' = None
    /\ UNCHANGED <<stored, status, secret>>

(* What stored becomes when the server carries out the call that ctrl+s makes for
   draft d, none when it is refused.  Create follows the kind of the draft, and a
   file is none of the items; Update that of the id, and leaves the name and the
   description. *)
OfTheDraft(id, d) ==                                                \* mutant
    IF d.type = "binary" THEN id ELSE <<d.type, NameOf(id)>>
Addressed(id, d) == id

Created(d) ==
    IF d.type = "binary" THEN {stored}
    ELSE {[stored EXCEPT ![<<d.type, d.title>>] = v] :
            v \in {w \in Contents(d.type, d) : /\ d.title \in Names
                                               /\ stored[<<d.type, d.title>>] = None
                                               /\ Cardinality(Items) < MaxItems}}

Updated(id, d) ==
    LET i == Addressed(id, d) IN
    {[stored EXCEPT ![i] = [v EXCEPT !.desc = stored[i].desc]] :
        v \in {w \in Contents(KindOf(i), d) : i \in Items}}

Saves ==
    LET d == DraftOf(form.kind, form.in) IN
    IF ~Valid(d) THEN {}
    ELSE IF form.id = None THEN Created(d)
    ELSE Updated(form.id, d)

CtrlS ==
    /\ form # None
    /\ stored' \in Saves
    /\ status' = "saved"
    /\ Closed

(* The form is refused, or the call is, or it fails with or without effect: the
   form stays. *)
CtrlSFails ==
    /\ form # None
    /\ \/ (Saves = {} \/ "fail" \in Faults) /\ UNCHANGED stored
       \/ "fail" \in Faults /\ stored' \in Saves
    /\ status' = "unsaved"
    /\ UNCHANGED <<form, opened, secret, stripped>>

Esc ==
    /\ form # None
    /\ Closed
    /\ UNCHANGED <<stored, status>>

(* Another client of the account deletes an item or changes it; so does this one
   from its list. *)
Changed(v) ==
    IF "cvc" \in DOMAIN v THEN {[v EXCEPT !.cvc = n] : n \in DOMAIN Itoa}
    ELSE {[v EXCEPT !.secret = s] : s \in {t \in Typed.secret : ~Blank(t)}}

OtherClient(id) ==
    /\ id \in Items
    /\ \E v \in Changed(stored[id]) \cup {None} : stored' = [stored EXCEPT ![id] = v]
    /\ UNCHANGED <<form, status, opened, secret, stripped>>

Next ==
    \/ OpenCreateEditor
    \/ \E id \in Ids : OpenEditEditor(id) \/ OtherClient(id)
    \/ \E field \in DOMAIN Typed : \E s \in Typed[field] : Type(field, s)
    \/ CtrlT \/ CtrlS \/ CtrlSFails \/ Esc

Spec == Init /\ [][Next]_vars

(***************************************************************************)
(* Properties.                                                             *)
(***************************************************************************)
Filling == Strings \ {Empty}
ContentsOf(k) ==
    CASE k = "text" -> [secret : Strings, desc : Strings]
      [] k = "creds" -> [login : Strings, secret : Strings, desc : Strings]
      [] k = "card" -> [system : Filling, number : Filling, holder : Filling,
                        cvc : DOMAIN Itoa, end : {d \in Seq(Nat) : IsDate(d)},
                        desc : Strings]

InputsOf(k) ==
    CASE k = "text" -> [title : Strings, secret : Strings, desc : Strings]
      [] k = "creds" -> [title : Strings, login : Strings, secret : Strings, desc : Strings]
      [] k = "card" -> [title : Strings, desc : Strings, system : Strings, number : Strings,
                        holder : Strings, cvc : Strings, end : Seq(Nat)]
      [] k = "binary" -> [path : Strings]

(* Every item has the content of its kind, that of a card with all that a card
   requires and a date of the calendar, and the form has the fields of its kind. *)
TypeOK ==
    /\ DOMAIN stored = Ids
    /\ \A id \in Items : stored[id] \in ContentsOf(KindOf(id))
    /\ form # None => /\ form \in [id : Ids \cup {None}, kind : Kinds,
                                   in : InputsOf(form.kind)]
                      /\ DOMAIN form.in = Fields(form.kind)
    /\ status \in {"unsaved", "saved"}
    /\ secret \in Strings /\ stripped \in BOOLEAN

(* However often ctrl+t is pressed, and whatever is typed into the other fields,
   the secret that was put into the form is the one ctrl+s would save: blanks and
   all as long as the form has been a text or credentials, trimmed once it has
   been a card or a file.  A secret of blanks is the exception: as a card or a
   file it is none, and something else may take its place. *)
SwitchKeepsSecret ==
    form # None /\ (stripped => ~Blank(secret)) =>
        SecretIn(form) = IF stripped THEN Trimmed[secret] ELSE secret

Saved == form # None /\ status' = "saved"

(* An edit changes the item it was opened on and no other, and of that one neither
   the kind nor the description, whatever kind ctrl+t has given the draft. *)
EditsOwnItem ==
    [][Saved /\ form.id # None =>
        /\ \A id \in Ids \ {form.id} : stored'[id] = stored[id]
        /\ form.id \in Items
        /\ DOMAIN stored'[form.id] = DOMAIN stored[form.id]
        /\ stored'[form.id].desc = stored[form.id].desc]_vars

(* To open an item and save it as it is writes back what was opened: nothing is
   lost or changed on the way through the form, in the number and the date of a
   card in particular. *)
ResaveKeeps ==
    [][Saved /\ opened # None =>
        stored'[form.id] = [opened EXCEPT !.desc = stored[form.id].desc]]_vars

(* The day after d is in another month. *)
EndsMonth(d) == ~IsDate([d EXCEPT ![1] = @ + 1])

Agree(field, typed, shown) ==
    CASE field = "secret" -> shown = typed
      [] field = "cvc" -> Numeral[shown] = Numeral[Trimmed[typed]]
      [] field = "end" -> IF Len(typed) = 3 THEN shown = typed
                          ELSE /\ shown[2] = typed[1] /\ shown[3] % 100 = typed[2] % 100
                               /\ shown[3] \in 2000..2099 /\ EndsMonth(shown)
      [] OTHER -> shown = Trimmed[typed]

(* What is saved is what was typed: opening the item again shows the fields that
   a save carries as they were, the date of a card as the last day of the month
   when only the month was given.  An edit does not carry the title and the
   description. *)
SavedIsShown ==
    [][Saved /\ form.kind # "binary" =>
        LET id == IF form.id = None THEN <<form.kind, Trimmed[form.in.title]>> ELSE form.id
            shown == Shown(id, stored'[id]) IN
        KindOf(id) = form.kind =>
            \A field \in Fields(form.kind) :
                \/ form.id # None /\ field \in {"title", "desc"}
                \/ field = "desc" /\ form.kind = "card" /\ Blank(form.in.desc)
                \/ Agree(field, form.in[field], shown[field])]_vars

(* What the form asks for: "логин обязателен" and its like. *)
Complete(k, v) ==
    CASE k = "text" -> ~Blank(v.secret)
      [] k = "creds" -> v.login # Empty /\ ~Blank(v.secret)
      [] k = "card" -> Empty \notin {v.system, v.number, v.holder} /\ IsDate(v.end)

(* An item that is saved has what its kind asks for.  Credentials that are saved
   as a text or a file are the exception: their login is gone. *)
SavedIsComplete ==
    [][Saved =>
        \A id \in Ids : stored'[id] # stored[id] =>
            \/ Complete(KindOf(id), stored'[id])
            \/ KindOf(id) = "creds" /\ form.kind \in {"text", "binary"}]_vars
===============================================================================
