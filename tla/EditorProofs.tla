------------------------------ MODULE EditorProofs ------------------------------
(***************************************************************************)
(* Proofs about the editor: of its types, and of what ctrl+t and ctrl+s     *)
(* keep, for all strings, numbers and items.                               *)
(***************************************************************************)
EXTENDS Editor, TLAPS

Stored == {"text", "creds", "card"}

Cards == [desc : Strings, system : Strings, number : Strings, holder : Strings,
          cvc : Strings, end : Seq(Nat)]
Drafts == [type : Kinds, title : Strings, login : Strings, secret : Strings,
           meta : Cards]

(* What is known of the strings. *)
LEMMA Trim ==
    ASSUME NEW s \in Strings
    PROVE  /\ Trimmed[s] \in Strings
           /\ Trimmed[Trimmed[s]] = Trimmed[s]
BY EditorAssumption

LEMMA Numerals ==
    ASSUME NEW n \in DOMAIN Itoa
    PROVE  /\ Itoa[n] \in Strings
           /\ Itoa[n] # Empty
           /\ Itoa[n] \in DOMAIN Numeral
           /\ Trimmed[Itoa[n]] = Itoa[n]
           /\ Numeral[Itoa[n]] = n
BY EditorAssumption

LEMMA EmptyString ==
    /\ Empty \in Strings
    /\ Trimmed[Empty] = Empty
BY EditorAssumption

LEMMA NoneIsNoId == None \notin Ids
BY EditorAssumption

LEMMA IdKinds ==
    ASSUME NEW id \in Ids
    PROVE  /\ KindOf(id) \in Stored /\ KindOf(id) \in Kinds
           /\ NameOf(id) \in Names
           /\ NameOf(id) \in Strings
           /\ NameOf(id) # Empty
           /\ id = <<KindOf(id), NameOf(id)>>
<1>1. PICK k \in Stored, n \in Names : id = <<k, n>>
  BY DEF Ids, Stored
<1>2. \A m \in Names : m \in Strings /\ m # Empty
  BY EditorAssumption
<1> QED BY <1>1, <1>2 DEF KindOf, NameOf, Stored, Kinds

(***************************************************************************)
(* Dates.                                                                  *)
(***************************************************************************)
LEMMA DaysInRange ==
    ASSUME NEW m, NEW y
    PROVE  DaysIn(m, y) \in 28..31
BY DEF DaysIn

(* The day before the first of the next month is the last of this one. *)
LEMMA LastDayIs ==
    ASSUME NEW m \in 1..12, NEW y \in Nat
    PROVE  LastDay(m, y) = <<DaysIn(m, y), m, y>>
<1>1. CASE m = 12
  <2>1. LastDay(m, y) = DayBefore(1, y + 1)
    BY <1>1 DEF LastDay
  <2>2. DayBefore(1, y + 1) = <<DaysIn(12, (y + 1) - 1), 12, (y + 1) - 1>>
    BY DEF DayBefore
  <2>3. (y + 1) - 1 = y
    OBVIOUS
  <2> QED BY <1>1, <2>1, <2>2, <2>3
<1>2. CASE m # 12
  <2>1. LastDay(m, y) = DayBefore(m + 1, y)
    BY <1>2 DEF LastDay
  <2>2. m + 1 # 1 /\ (m + 1) - 1 = m
    OBVIOUS
  <2>3. DayBefore(m + 1, y) = <<DaysIn((m + 1) - 1, y), (m + 1) - 1, y>>
    BY <2>2 DEF DayBefore
  <2> QED BY <2>1, <2>2, <2>3
<1> QED BY <1>1, <1>2

(* What becomes of a date that has been typed: itself, or the last day of the
   month. *)
LEMMA Dates ==
    ASSUME NEW e \in Seq(Nat), NEW d \in Normalised(e)
    PROVE  /\ d \in Seq(Nat) /\ IsDate(d)
           /\ \/ Len(e) = 3 /\ d = e
              \/ /\ Len(e) = 2 /\ e[1] \in 1..12
                 /\ Century(e[2]) \in 2000..2099
                 /\ d = <<DaysIn(e[1], Century(e[2])), e[1], Century(e[2])>>
<1>1. CASE Len(e) = 3
  BY <1>1 DEF Normalised
<1>2. CASE Len(e) # 3
  <2>1. /\ Len(e) = 2 /\ e[1] \in 1..12 /\ Century(e[2]) \in 2000..2099
        /\ d = LastDay(e[1], Century(e[2]))
    BY <1>2 DEF Normalised
  <2> DEFINE m == e[1]
             y == Century(e[2])
  <2>6. m \in 1..12 /\ m \in Nat /\ y \in Nat
    <3>1. m \in 1..12
      BY <2>1
    <3>2. y \in 2000..2099
      BY <2>1
    <3> HIDE DEF m, y
    <3>3. m \in Nat
      BY <3>1
    <3>4. y \in Nat
      BY <3>2
    <3> QED BY <3>1, <3>3, <3>4
  <2>2. d = <<DaysIn(m, y), m, y>>
    <3> HIDE DEF m, y
    <3>1. d = LastDay(m, y)
      BY <2>1 DEF m, y
    <3> QED BY <2>6, <3>1, LastDayIs
  <2>3. DaysIn(m, y) \in 28..31
    BY DaysInRange
  <2>4. d \in Seq(Nat) /\ Len(d) = 3 /\ d[1] = DaysIn(m, y) /\ d[2] = m /\ d[3] = y
    <3> HIDE DEF m, y
    <3> QED BY <2>2, <2>3, <2>6
  <2>5. IsDate(d)
    <3> HIDE DEF m, y
    <3>1. m \in 1..12 /\ y \in 2000..2099
      BY <2>1 DEF m, y
    <3> QED BY <2>3, <2>4, <3>1 DEF IsDate
  <2> QED BY <2>1, <2>2, <2>4, <2>5
<1> QED BY <1>1, <1>2

LEMMA FullDate ==
    ASSUME NEW e, Len(e) = 3, NEW d \in Normalised(e)
    PROVE  d = e
BY DEF Normalised

(***************************************************************************)
(* Drafts.                                                                 *)
(***************************************************************************)
LEMMA PlainType ==
    ASSUME NEW s \in Strings
    PROVE  Plain(s) \in Cards
BY EmptyString DEF Plain, Cards

LEMMA DraftType ==
    ASSUME NEW k \in Kinds, NEW in \in InputsOf(k)
    PROVE  DraftOf(k, in) \in Drafts
<1> USE EmptyString, Trim, PlainType
<1>1. CASE k = "text"
  BY <1>1 DEF DraftOf, Draft, Drafts, InputsOf, Kinds, Raw
<1>2. CASE k = "creds"
  BY <1>2 DEF DraftOf, Draft, Drafts, InputsOf, Kinds, Raw
<1>3. CASE k = "card"
  <2>1. in \in [title : Strings, desc : Strings, system : Strings, number : Strings,
                holder : Strings, cvc : Strings, end : Seq(Nat)]
    BY <1>3 DEF InputsOf
  <2>2. CardMeta(in) \in Cards
    BY <2>1 DEF CardMeta, Cards
  <2>3. DraftOf(k, in) = Draft(k, Trimmed[in.title], CardMeta(in).number,
                               CardMeta(in).cvc, CardMeta(in))
    BY <1>3 DEF DraftOf
  <2>4. Trimmed[in.title] \in Strings
    BY <2>1
  <2>5. CardMeta(in).number \in Strings /\ CardMeta(in).cvc \in Strings
    BY <2>2 DEF Cards
  <2> QED BY <2>2, <2>3, <2>4, <2>5 DEF Draft, Drafts
<1>4. CASE k = "binary"
  <2>1. in.path \in Strings /\ BaseName[in.path] \in Strings
    BY <1>4, EditorAssumption DEF InputsOf
  <2> QED BY <1>4, <2>1 DEF DraftOf, Draft, Drafts, Kinds
<1> QED BY <1>1, <1>2, <1>3, <1>4 DEF Kinds

(* The card of a draft is the one it has, with the login for a number and the
   secret for a CVC that is missing. *)
LEMMA FilledIs ==
    ASSUME NEW d \in Drafts
    PROVE  /\ Filled(d) \in Cards
           /\ Filled(d).desc = d.meta.desc /\ Filled(d).system = d.meta.system
           /\ Filled(d).holder = d.meta.holder /\ Filled(d).end = d.meta.end
           /\ Filled(d).number = IF d.meta.number = Empty THEN d.login ELSE d.meta.number
           /\ Filled(d).cvc = IF d.meta.cvc = Empty THEN d.secret ELSE d.meta.cvc
BY DEF Filled, Drafts, Cards

LEMMA InputsType ==
    ASSUME NEW k \in Kinds, NEW d \in Drafts
    PROVE  InputsFor(k, d) \in InputsOf(k)
<1>1. CASE k = "text"
  BY <1>1 DEF InputsFor, InputsOf, Drafts, Cards
<1>2. CASE k = "creds"
  BY <1>2 DEF InputsFor, InputsOf, Drafts, Cards
<1>3. CASE k = "card"
  <2>1. Filled(d) \in Cards /\ d.title \in Strings
    BY FilledIs DEF Drafts
  <2>2. InputsFor(k, d) =
          [title |-> d.title, desc |-> Filled(d).desc, system |-> Filled(d).system,
           number |-> Filled(d).number, holder |-> Filled(d).holder,
           cvc |-> Filled(d).cvc, end |-> Filled(d).end]
    BY <1>3 DEF InputsFor
  <2> QED BY <1>3, <2>1, <2>2 DEF InputsOf, Cards
<1>4. CASE k = "binary"
  BY <1>4 DEF InputsFor, InputsOf, Drafts, PathOf
<1> QED BY <1>1, <1>2, <1>3, <1>4 DEF Kinds

LEMMA FormFields ==
    ASSUME NEW k \in Kinds, NEW in \in InputsOf(k)
    PROVE  DOMAIN in = Fields(k)
<1>1. CASE k = "text"
  BY <1>1 DEF InputsOf, Fields
<1>2. CASE k = "creds"
  BY <1>2 DEF InputsOf, Fields
<1>3. CASE k = "card"
  BY <1>3 DEF InputsOf, Fields
<1>4. CASE k = "binary"
  BY <1>4 DEF InputsOf, Fields
<1> QED BY <1>1, <1>2, <1>3, <1>4 DEF Kinds

(* Typing into a field. *)
LEMMA TypedInputs ==
    ASSUME NEW k \in Kinds, NEW in \in InputsOf(k),
           NEW field \in Fields(k), NEW s \in IF field = "end" THEN Seq(Nat) ELSE Strings
    PROVE  [in EXCEPT ![field] = s] \in InputsOf(k)
<1>1. CASE k = "text"
  BY <1>1 DEF InputsOf, Fields
<1>2. CASE k = "creds"
  BY <1>2 DEF InputsOf, Fields
<1>3. CASE k = "card"
  BY <1>3 DEF InputsOf, Fields
<1>4. CASE k = "binary"
  BY <1>4 DEF InputsOf, Fields
<1> QED BY <1>1, <1>2, <1>3, <1>4 DEF Kinds

(***************************************************************************)
(* Contents.                                                               *)
(***************************************************************************)

(* A card that parseCardDraft has accepted. *)
LEMMA ParsedIs ==
    ASSUME NEW d \in Drafts, NEW p \in Parsed(d)
    PROVE  /\ p \in Cards
           /\ p.system = d.meta.system /\ p.holder = d.meta.holder
           /\ p.number = Filled(d).number /\ p.cvc = Filled(d).cvc
           /\ p.desc = IF d.meta.desc = Empty THEN d.title ELSE d.meta.desc
           /\ p.end \in Normalised(d.meta.end)
           /\ Empty \notin {p.system, p.number, p.holder, p.cvc}
<1> DEFINE card == [Filled(d) EXCEPT !.desc = IF @ = Empty THEN d.title ELSE @]
<1>1. /\ Empty \notin Required(card)
      /\ \E e \in Normalised(card.end) : p = [card EXCEPT !.end = e]
  BY DEF Parsed
<1>2. Filled(d) \in Cards /\ d.title \in Strings
  BY FilledIs DEF Drafts
<1>3. /\ card \in Cards
      /\ card.system = Filled(d).system /\ card.holder = Filled(d).holder
      /\ card.number = Filled(d).number /\ card.cvc = Filled(d).cvc
      /\ card.end = Filled(d).end
      /\ card.desc = IF Filled(d).desc = Empty THEN d.title ELSE Filled(d).desc
  BY <1>2 DEF Cards
<1>4. PICK e \in Normalised(card.end) : p = [card EXCEPT !.end = e]
  BY <1>1
<1>5. Empty \notin {card.system, card.number, card.holder, card.cvc}
  BY <1>1 DEF Required
<1> HIDE DEF card
<1>6. e \in Seq(Nat)
  <2>1. card.end \in Seq(Nat)
    BY <1>3 DEF Cards
  <2> QED BY <2>1, Dates
<1>7. /\ p \in Cards /\ p.end = e
      /\ p.system = card.system /\ p.holder = card.holder
      /\ p.number = card.number /\ p.cvc = card.cvc /\ p.desc = card.desc
  BY <1>3, <1>4, <1>6 DEF Cards
<1> QED BY <1>3, <1>4, <1>5, <1>7, FilledIs

LEMMA CardContentIs ==
    ASSUME NEW d \in Drafts, NEW v \in CardContents(d)
    PROVE  \E p \in Parsed(d) :
              /\ p.cvc \in DOMAIN Numeral
              /\ v = [system |-> p.system, number |-> p.number, holder |-> p.holder,
                      cvc |-> Numeral[p.cvc], end |-> p.end, desc |-> p.desc]
BY DEF CardContents

LEMMA CardContentType ==
    ASSUME NEW d \in Drafts, NEW v \in CardContents(d)
    PROVE  v \in ContentsOf("card")
<1>1. PICK p \in Parsed(d) :
        /\ p.cvc \in DOMAIN Numeral
        /\ v = [system |-> p.system, number |-> p.number, holder |-> p.holder,
                cvc |-> Numeral[p.cvc], end |-> p.end, desc |-> p.desc]
  BY CardContentIs
<1>2. /\ p.system \in Filling /\ p.number \in Filling /\ p.holder \in Filling
      /\ p.desc \in Strings
  BY ParsedIs DEF Cards, Filling
<1>3. p.end \in Seq(Nat) /\ IsDate(p.end)
  <2>1. d.meta.end \in Seq(Nat)
    BY DEF Drafts, Cards
  <2> QED BY <2>1, ParsedIs, Dates
<1>4. Numeral[p.cvc] \in DOMAIN Itoa
  BY <1>1, EditorAssumption
<1> QED BY <1>1, <1>2, <1>3, <1>4 DEF ContentsOf

LEMMA ContentsType ==
    ASSUME NEW k \in Stored, NEW d \in Drafts, NEW v \in Contents(k, d)
    PROVE  v \in ContentsOf(k)
<1>0. d.login \in Strings /\ d.secret \in Strings /\ d.meta.desc \in Strings
  BY DEF Drafts, Cards
<1>1. CASE k = "text"
  BY <1>0, <1>1 DEF Contents, ContentsOf
<1>2. CASE k = "creds"
  BY <1>0, <1>2 DEF Contents, ContentsOf
<1>3. CASE k = "card"
  BY <1>3, CardContentType DEF Contents
<1> QED BY <1>1, <1>2, <1>3 DEF Stored

LEMMA ItemDraftType ==
    ASSUME NEW id \in Ids, NEW v \in ContentsOf(KindOf(id))
    PROVE  ItemDraft(id, v) \in Drafts
<1>0. NameOf(id) \in Strings /\ Empty \in Strings
  BY IdKinds, EmptyString
<1>1. CASE KindOf(id) = "text"
  <2>1. v.secret \in Strings /\ v.desc \in Strings
    BY <1>1 DEF ContentsOf
  <2>2. Plain(v.desc) \in Cards
    BY <2>1, PlainType
  <2> QED BY <1>0, <1>1, <2>1, <2>2 DEF ItemDraft, Draft, Drafts, Kinds
<1>2. CASE KindOf(id) = "creds"
  <2>1. v.login \in Strings /\ v.secret \in Strings /\ v.desc \in Strings
    BY <1>2 DEF ContentsOf
  <2>2. Plain(v.desc) \in Cards
    BY <2>1, PlainType
  <2> QED BY <1>0, <1>2, <2>1, <2>2 DEF ItemDraft, Draft, Drafts, Kinds
<1>3. CASE KindOf(id) = "card"
  <2>1. /\ v.system \in Strings /\ v.number \in Strings /\ v.holder \in Strings
        /\ v.cvc \in DOMAIN Itoa /\ v.end \in Seq(Nat) /\ v.desc \in Strings
    BY <1>3 DEF ContentsOf, Filling
  <2>2. Itoa[v.cvc] \in Strings
    BY <2>1, Numerals
  <2> QED BY <1>0, <1>3, <2>1, <2>2 DEF ItemDraft, Draft, Drafts, Cards, Kinds
<1> QED BY <1>1, <1>2, <1>3, IdKinds DEF Stored

LEMMA ShownType ==
    ASSUME NEW id \in Ids, NEW v \in ContentsOf(KindOf(id))
    PROVE  Shown(id, v) \in InputsOf(KindOf(id))
BY IdKinds, ItemDraftType, InputsType DEF Shown

(***************************************************************************)
(* What ctrl+s makes of the items.                                         *)
(***************************************************************************)

(* What has been through the form has no blanks around it. *)
CleanDraft(d) ==
    /\ Trimmed[d.login] = d.login
    /\ Trimmed[d.meta.system] = d.meta.system
    /\ Trimmed[d.meta.number] = d.meta.number
    /\ Trimmed[d.meta.holder] = d.meta.holder

Clean(k, v) ==
    /\ k = "creds" => Trimmed[v.login] = v.login
    /\ k = "card" => /\ Trimmed[v.system] = v.system
                     /\ Trimmed[v.number] = v.number
                     /\ Trimmed[v.holder] = v.holder

StoredOK ==
    /\ DOMAIN stored = Ids
    /\ \A id \in Items : /\ stored[id] \in ContentsOf(KindOf(id))
                         /\ Clean(KindOf(id), stored[id])

LEMMA DraftClean ==
    ASSUME NEW k \in Kinds, NEW in \in InputsOf(k)
    PROVE  CleanDraft(DraftOf(k, in))
<1>1. CASE k = "text"
  BY <1>1, EmptyString DEF DraftOf, Draft, Plain, CleanDraft
<1>2. CASE k = "creds"
  BY <1>2, EmptyString, Trim DEF DraftOf, Draft, Plain, CleanDraft, InputsOf
<1>3. CASE k = "card"
  BY <1>3, Trim DEF DraftOf, Draft, CardMeta, CleanDraft, InputsOf
<1>4. CASE k = "binary"
  BY <1>4, EmptyString DEF DraftOf, Draft, Plain, CleanDraft
<1> QED BY <1>1, <1>2, <1>3, <1>4 DEF Kinds

LEMMA ContentsClean ==
    ASSUME NEW k \in Stored, NEW d \in Drafts, CleanDraft(d), NEW v \in Contents(k, d)
    PROVE  Clean(k, v)
<1>1. CASE k = "text"
  BY <1>1 DEF Clean
<1>2. CASE k = "creds"
  BY <1>2 DEF Contents, Clean, CleanDraft
<1>3. CASE k = "card"
  <2>1. v \in CardContents(d)
    BY <1>3 DEF Contents
  <2>2. PICK p \in Parsed(d) :
          v = [system |-> p.system, number |-> p.number, holder |-> p.holder,
               cvc |-> Numeral[p.cvc], end |-> p.end, desc |-> p.desc]
    BY <2>1, CardContentIs
  <2>3. /\ p.system = d.meta.system /\ p.holder = d.meta.holder
        /\ p.number = IF d.meta.number = Empty THEN d.login ELSE d.meta.number
    BY ParsedIs, FilledIs
  <2> QED BY <1>3, <2>2, <2>3 DEF Clean, CleanDraft
<1> QED BY <1>1, <1>2, <1>3 DEF Stored

LEMMA WithDesc ==
    ASSUME NEW k \in Stored, NEW v \in ContentsOf(k), NEW s \in Strings
    PROVE  LET w == [v EXCEPT !.desc = s] IN
           /\ w \in ContentsOf(k)
           /\ w.desc = s
           /\ DOMAIN w = DOMAIN v
           /\ Clean(k, v) => Clean(k, w)
<1>1. CASE k = "text"
  BY <1>1 DEF ContentsOf, Clean
<1>2. CASE k = "creds"
  BY <1>2 DEF ContentsOf, Clean
<1>3. CASE k = "card"
  BY <1>3 DEF ContentsOf, Clean
<1> QED BY <1>1, <1>2, <1>3 DEF Stored

LEMMA SameFields ==
    ASSUME NEW k \in Stored, NEW v \in ContentsOf(k), NEW w \in ContentsOf(k)
    PROVE  DOMAIN v = DOMAIN w /\ v.desc \in Strings
<1>1. CASE k = "text"
  BY <1>1 DEF ContentsOf
<1>2. CASE k = "creds"
  BY <1>2 DEF ContentsOf
<1>3. CASE k = "card"
  BY <1>3 DEF ContentsOf
<1> QED BY <1>1, <1>2, <1>3 DEF Stored

LEMMA UpdatedIs ==
    ASSUME StoredOK, NEW id \in Ids, NEW d \in Drafts, CleanDraft(d),
           NEW after \in Updated(id, d)
    PROVE  /\ id \in Items
           /\ DOMAIN after = Ids
           /\ \A i \in Ids \ {id} : after[i] = stored[i]
           /\ \E v \in Contents(KindOf(id), d) :
                after[id] = [v EXCEPT !.desc = stored[id].desc]
           /\ after[id] \in ContentsOf(KindOf(id))
           /\ Clean(KindOf(id), after[id])
           /\ after[id].desc = stored[id].desc
           /\ DOMAIN after[id] = DOMAIN stored[id]
<1>1. PICK v \in Contents(KindOf(id), d) :
        /\ id \in Items
        /\ after = [stored EXCEPT ![id] = [v EXCEPT !.desc = stored[id].desc]]
  BY DEF Updated, Addressed
<1>2. /\ DOMAIN after = Ids
      /\ after[id] = [v EXCEPT !.desc = stored[id].desc]
      /\ \A i \in Ids \ {id} : after[i] = stored[i]
  BY <1>1 DEF StoredOK
<1>3. /\ KindOf(id) \in Stored
      /\ stored[id] \in ContentsOf(KindOf(id))
      /\ v \in ContentsOf(KindOf(id))
      /\ Clean(KindOf(id), v)
  BY <1>1, IdKinds, ContentsType, ContentsClean DEF StoredOK
<1>4. stored[id].desc \in Strings /\ DOMAIN v = DOMAIN stored[id]
  BY <1>3, SameFields
<1>5. /\ after[id] \in ContentsOf(KindOf(id))
      /\ after[id].desc = stored[id].desc
      /\ DOMAIN after[id] = DOMAIN v
      /\ Clean(KindOf(id), after[id])
  BY <1>2, <1>3, <1>4, WithDesc
<1> QED BY <1>1, <1>2, <1>4, <1>5

LEMMA CreatedIs ==
    ASSUME StoredOK, NEW d \in Drafts, CleanDraft(d), NEW after \in Created(d)
    PROVE  \/ d.type = "binary" /\ after = stored
           \/ /\ d.type \in Stored
              /\ <<d.type, d.title>> \in Ids
              /\ \E v \in Contents(d.type, d) :
                    after = [stored EXCEPT ![<<d.type, d.title>>] = v]
<1>1. CASE d.type = "binary"
  BY <1>1 DEF Created
<1>2. CASE d.type # "binary"
  <2>1. d.type \in Stored
    BY <1>2 DEF Drafts, Kinds, Stored
  <2>2. d.title \in Names /\ \E v \in Contents(d.type, d) :
                               after = [stored EXCEPT ![<<d.type, d.title>>] = v]
    BY <1>2 DEF Created
  <2> QED BY <2>1, <2>2 DEF Ids, Stored
<1> QED BY <1>1, <1>2

(* Either way the items stay what they should be. *)
LEMMA SavesKeep ==
    ASSUME StoredOK, form # None, NEW after \in Saves,
           form \in [id : Ids \cup {None}, kind : Kinds, in : InputsOf(form.kind)]
    PROVE  /\ DOMAIN after = Ids
           /\ \A id \in Ids : after[id] # None =>
                /\ after[id] \in ContentsOf(KindOf(id))
                /\ Clean(KindOf(id), after[id])
<1> DEFINE d == DraftOf(form.kind, form.in)
<1>1. d \in Drafts /\ CleanDraft(d)
  BY DraftType, DraftClean
<1>2. \/ form.id = None /\ after \in Created(d)
      \/ form.id \in Ids /\ after \in Updated(form.id, d)
  BY DEF Saves
<1> HIDE DEF d
<1>3. CASE form.id = None /\ after \in Created(d)
  <2>1. CASE after = stored
    BY <2>1 DEF StoredOK, Items
  <2>2. CASE /\ d.type \in Stored /\ <<d.type, d.title>> \in Ids
             /\ \E v \in Contents(d.type, d) :
                   after = [stored EXCEPT ![<<d.type, d.title>>] = v]
    <3>1. PICK v \in Contents(d.type, d) :
            after = [stored EXCEPT ![<<d.type, d.title>>] = v]
      BY <2>2
    <3> DEFINE i == <<d.type, d.title>>
    <3>2. KindOf(i) = d.type
      BY DEF KindOf
    <3>3. v \in ContentsOf(KindOf(i)) /\ Clean(KindOf(i), v)
      BY <1>1, <2>2, <3>2, ContentsType, ContentsClean
    <3>4. /\ DOMAIN after = Ids /\ after[i] = v
          /\ \A id \in Ids \ {i} : after[id] = stored[id]
      BY <2>2, <3>1 DEF StoredOK
    <3> QED BY <3>3, <3>4 DEF StoredOK, Items
  <2> QED BY <1>1, <1>3, <2>1, <2>2, CreatedIs
<1>4. CASE form.id \in Ids /\ after \in Updated(form.id, d)
  <2>1. /\ DOMAIN after = Ids
        /\ \A i \in Ids \ {form.id} : after[i] = stored[i]
        /\ after[form.id] \in ContentsOf(KindOf(form.id))
        /\ Clean(KindOf(form.id), after[form.id])
    BY <1>1, <1>4, UpdatedIs
  <2> QED BY <2>1 DEF StoredOK, Items
<1> QED BY <1>2, <1>3, <1>4

(***************************************************************************)
(* ctrl+t.                                                                 *)
(***************************************************************************)
LEMMA SwitchKeeps ==
    ASSUME NEW k \in Kinds, NEW in \in InputsOf(k),
           NextKind(k) \in Strips \/ k \in Strips => ~Blank(DraftOf(k, in).secret)
    PROVE  LET n == NextKind(k)
               d == DraftOf(k, in) IN
           DraftOf(n, InputsFor(n, d)).secret
               = IF n \in Strips THEN Trimmed[d.secret] ELSE d.secret
<1> DEFINE d == DraftOf(k, in)
<1>0. d \in Drafts /\ d.secret \in Strings
  BY DraftType DEF Drafts
<1>1. CASE k = "text"
  BY <1>0, <1>1 DEF NextKind, InputsFor, DraftOf, Draft, Raw, Strips
<1>2. CASE k = "creds"
  <2>0. NextKind(k) = "card" /\ d.secret # Empty
    BY <1>2, EmptyString DEF NextKind, Strips, Blank
  <2>1. d.meta.cvc = Empty
    BY <1>2 DEF DraftOf, Draft, Plain
  <2>2. Filled(d).cvc = d.secret
    BY <1>0, <2>0, <2>1, FilledIs
  <2> HIDE DEF d
  <2>3. InputsFor("card", d).cvc = d.secret
    BY <2>2 DEF InputsFor
  <2>4. DraftOf("card", InputsFor("card", d)).secret = Trimmed[d.secret]
    BY <2>3 DEF DraftOf, Draft, CardMeta
  <2> QED BY <2>0, <2>4 DEF Strips, d
<1>3. CASE k = "card"
  <2>0. NextKind(k) = "binary" /\ d.secret # Empty
    BY <1>3, EmptyString DEF NextKind, Strips, Blank
  <2> HIDE DEF d
  <2>1. InputsFor("binary", d).path = d.secret
    BY <2>0 DEF InputsFor, PathOf
  <2>2. DraftOf("binary", InputsFor("binary", d)).secret = Trimmed[d.secret]
    BY <2>1 DEF DraftOf, Draft
  <2> QED BY <2>0, <2>2 DEF Strips, d
<1>4. CASE k = "binary"
  <2>0. NextKind(k) = "text"
    BY <1>4 DEF NextKind
  <2> HIDE DEF d
  <2>1. DraftOf("text", InputsFor("text", d)).secret = d.secret
    BY DEF InputsFor, DraftOf, Draft, Raw
  <2> QED BY <2>0, <2>1 DEF Strips, d
<1> QED BY <1>1, <1>2, <1>3, <1>4 DEF Kinds

(***************************************************************************)
(* The invariant.                                                          *)
(***************************************************************************)
Forms == {f \in [id : Ids \cup {None}, kind : Kinds, in : UNION {InputsOf(k) : k \in Kinds}] :
            f.in \in InputsOf(f.kind)}

FormOK ==
    /\ form # None => form \in Forms /\ status = "unsaved"
    /\ status \in {"unsaved", "saved"}
    /\ secret \in Strings /\ stripped \in BOOLEAN
    /\ form # None /\ form.kind \in Strips => stripped

(* Until the user has touched it, the form shows the item it was opened on. *)
OpenedAsIs ==
    opened # None =>
        /\ form.id \in Ids
        /\ form.kind = KindOf(form.id)
        /\ opened \in ContentsOf(form.kind)
        /\ Clean(form.kind, opened)
        /\ form.in = Shown(form.id, opened)

Inv == StoredOK /\ FormOK /\ OpenedAsIs /\ SwitchKeepsSecret

LEMMA FormParts ==
    ASSUME NEW f \in Forms
    PROVE  /\ f.id \in Ids \cup {None} /\ f.kind \in Kinds /\ f.in \in InputsOf(f.kind)
           /\ f \in [id : Ids \cup {None}, kind : Kinds, in : InputsOf(f.kind)]
           /\ DOMAIN f.in = Fields(f.kind)
           /\ SecretIn(f) \in Strings
<1>1. /\ f.id \in Ids \cup {None} /\ f.kind \in Kinds /\ f.in \in InputsOf(f.kind)
      /\ f \in [id : Ids \cup {None}, kind : Kinds, in : InputsOf(f.kind)]
  BY DEF Forms
<1>2. DOMAIN f.in = Fields(f.kind)
  BY <1>1, FormFields
<1>3. DraftOf(f.kind, f.in).secret \in Strings
  BY <1>1, DraftType DEF Drafts
<1> QED BY <1>1, <1>2, <1>3 DEF SecretIn

LEMMA IsForm ==
    ASSUME NEW i \in Ids \cup {None}, NEW k \in Kinds, NEW in \in InputsOf(k)
    PROVE  [id |-> i, kind |-> k, in |-> in] \in Forms
BY DEF Forms

LEMMA NewForm ==
    [id |-> None, kind |-> "text",
     in |-> InputsFor("text", Draft("text", Empty, Empty, Empty, Plain(Empty)))] \in Forms
<1>1. Draft("text", Empty, Empty, Empty, Plain(Empty)) \in Drafts
  BY EmptyString, PlainType DEF Draft, Drafts, Kinds
<1>2. "text" \in Kinds
  BY DEF Kinds
<1>3. InputsFor("text", Draft("text", Empty, Empty, Empty, Plain(Empty))) \in InputsOf("text")
  BY <1>1, <1>2, InputsType
<1> QED BY <1>2, <1>3, IsForm

LEMMA NextIsKind ==
    ASSUME NEW k \in Kinds
    PROVE  NextKind(k) \in Kinds
BY DEF Kinds, NextKind

LEMMA TypeFromInv == Inv => TypeOK
<1> SUFFICES ASSUME Inv PROVE TypeOK
  OBVIOUS
<1>1. form # None => /\ form \in [id : Ids \cup {None}, kind : Kinds, in : InputsOf(form.kind)]
                     /\ DOMAIN form.in = Fields(form.kind)
  BY FormParts DEF Inv, FormOK
<1> QED BY <1>1 DEF Inv, StoredOK, FormOK, TypeOK

LEMMA InitInv == Init => Inv
<1> SUFFICES ASSUME Init PROVE Inv
  OBVIOUS
<1>1. StoredOK
  BY DEF Init, StoredOK, Items
<1>2. FormOK
  BY EmptyString DEF Init, FormOK
<1>3. OpenedAsIs /\ SwitchKeepsSecret
  BY DEF Init, OpenedAsIs, SwitchKeepsSecret
<1> QED BY <1>1, <1>2, <1>3 DEF Inv

(* A form of a kind that trims shows a secret that is trimmed. *)
LEMMA StripsTrim ==
    ASSUME NEW k \in Strips, NEW in \in InputsOf(k)
    PROVE  Trimmed[DraftOf(k, in).secret] = DraftOf(k, in).secret
<1>1. CASE k = "card"
  <2>1. in.cvc \in Strings /\ DraftOf(k, in).secret = Trimmed[in.cvc]
    BY <1>1 DEF InputsOf, DraftOf, Draft, CardMeta
  <2> QED BY <2>1, Trim
<1>2. CASE k = "binary"
  <2>1. in.path \in Strings /\ DraftOf(k, in).secret = Trimmed[in.path]
    BY <1>2 DEF InputsOf, DraftOf, Draft
  <2> QED BY <2>1, Trim
<1> QED BY <1>1, <1>2 DEF Strips

(* Opening a form. *)
LEMMA OpenKeeps ==
    ASSUME Inv, NEW f \in Forms, Open(f)
    PROVE  StoredOK' /\ FormOK' /\ SwitchKeepsSecret'
<1>1. /\ form' = f /\ status' = "unsaved" /\ stored' = stored
      /\ secret' = SecretIn(f) /\ stripped' = (f.kind \in Strips)
  BY DEF Open, PutIn
<1>2. StoredOK'
  BY <1>1 DEF Inv, StoredOK, Items
<1>3. FormOK'
  <2>1. SecretIn(f) \in Strings
    BY FormParts
  <2>2. stripped' \in BOOLEAN /\ (form'.kind \in Strips => stripped')
    <3>1. (f.kind \in Strips) \in BOOLEAN
      OBVIOUS
    <3> QED BY <1>1, <3>1, Zenon
  <2>3. form' \in Forms /\ status' = "unsaved" /\ secret' \in Strings
    BY <1>1, <2>1
  <2> QED BY <2>2, <2>3 DEF FormOK
<1>4. f.kind \in Strips => Trimmed[SecretIn(f)] = SecretIn(f)
  BY FormParts, StripsTrim DEF SecretIn
<1>5. SecretIn(form') = SecretIn(f)
  BY <1>1 DEF SecretIn
<1>6. SwitchKeepsSecret'
  BY <1>1, <1>4, <1>5 DEF SwitchKeepsSecret, SecretIn
<1> QED BY <1>2, <1>3, <1>6

LEMMA CreateKeeps ==
    ASSUME Inv, OpenCreateEditor
    PROVE  Inv'
<1>1. StoredOK' /\ FormOK' /\ SwitchKeepsSecret'
  BY NewForm, OpenKeeps DEF OpenCreateEditor
<1>2. OpenedAsIs'
  BY DEF OpenCreateEditor, OpenedAsIs
<1> QED BY <1>1, <1>2 DEF Inv

LEMMA EditKeeps ==
    ASSUME Inv, NEW id \in Ids, OpenEditEditor(id)
    PROVE  Inv'
<1> DEFINE f == [id |-> id, kind |-> KindOf(id), in |-> Shown(id, stored[id])]
<1>1. stored[id] \in ContentsOf(KindOf(id)) /\ Clean(KindOf(id), stored[id])
  BY DEF OpenEditEditor, Inv, StoredOK
<1>2. KindOf(id) \in Kinds /\ Shown(id, stored[id]) \in InputsOf(KindOf(id))
  BY <1>1, IdKinds, ShownType
<1>3. f \in Forms
  BY <1>2, IsForm
<1>4. Open(f) /\ opened' = stored[id]
  BY DEF OpenEditEditor
<1>5. StoredOK' /\ FormOK' /\ SwitchKeepsSecret'
  BY <1>3, <1>4, OpenKeeps
<1>6. OpenedAsIs'
  <2> SUFFICES ASSUME opened' # None
               PROVE  /\ form'.id \in Ids
                      /\ form'.kind = KindOf(form'.id)
                      /\ opened' \in ContentsOf(form'.kind)
                      /\ Clean(form'.kind, opened')
                      /\ form'.in = Shown(form'.id, opened')
    BY DEF OpenedAsIs
  <2>1. form' = f /\ f.id = id /\ f.kind = KindOf(id) /\ f.in = Shown(id, stored[id])
    BY <1>4 DEF Open
  <2> QED BY <1>1, <1>4, <2>1
<1> QED BY <1>5, <1>6 DEF Inv

(* What a form shows for the secret is in the one field its kind has for it. *)
LEMMA SecretTyped ==
    ASSUME NEW k \in Kinds, NEW in \in InputsOf(k), NEW field \in Fields(k),
           NEW s, NEW to, to = [in EXCEPT ![field] = s]
    PROVE  DraftOf(k, to).secret =
             IF field \in {"secret", "cvc", "path"}
             THEN IF k \in Strips THEN Trimmed[s] ELSE s
             ELSE DraftOf(k, in).secret
<1>1. CASE k = "text"
  BY <1>1 DEF InputsOf, Fields, DraftOf, Draft, Raw, Strips
<1>2. CASE k = "creds"
  BY <1>2 DEF InputsOf, Fields, DraftOf, Draft, Raw, Strips
<1>3. CASE k = "card"
  BY <1>3 DEF InputsOf, Fields, DraftOf, Draft, CardMeta, Strips
<1>4. CASE k = "binary"
  BY <1>4 DEF InputsOf, Fields, DraftOf, Draft, Strips
<1> QED BY <1>1, <1>2, <1>3, <1>4 DEF Kinds

LEMMA TypeKeeps ==
    ASSUME Inv, NEW field \in DOMAIN Typed, NEW s \in Typed[field], Type(field, s)
    PROVE  Inv'
<1> DEFINE f == [form EXCEPT !.in[field] = s]
           put == field \in {"secret", "cvc", "path"}
<1>1. /\ form # None /\ field \in Fields(form.kind) /\ form' = f /\ opened' = None
      /\ stored' = stored /\ status' = status
      /\ put => secret' = s /\ stripped' = (form.kind \in Strips)
      /\ ~put => secret' = secret /\ stripped' = stripped
  BY DEF Type, PutIn
<1>2. form \in Forms
  BY <1>1 DEF Inv, FormOK
<1>3. s \in IF field = "end" THEN Seq(Nat) ELSE Strings
  BY EditorAssumption
<1>4. /\ form.id \in Ids \cup {None} /\ form.kind \in Kinds
      /\ form.in \in InputsOf(form.kind)
  BY <1>2, FormParts
<1>5. [form.in EXCEPT ![field] = s] \in InputsOf(form.kind)
  BY <1>1, <1>3, <1>4, TypedInputs
<1>6. f = [id |-> form.id, kind |-> form.kind, in |-> [form.in EXCEPT ![field] = s]]
  BY <1>2 DEF Forms
<1>7. f \in Forms
  BY <1>4, <1>5, <1>6, IsForm
<1>8. StoredOK'
  BY <1>1 DEF Inv, StoredOK, Items
<1>9. FormOK'
  <2>1. put => s \in Strings
    BY <1>3
  <2>2. form'.kind = form.kind
    BY <1>1, <1>6
  <2>3. form' \in Forms /\ status' = "unsaved" /\ secret' \in Strings
    BY <1>1, <1>7, <2>1 DEF Inv, FormOK
  <2>4. stripped' \in BOOLEAN /\ (form'.kind \in Strips => stripped')
    <3>1. stripped \in BOOLEAN /\ (form.kind \in Strips => stripped)
      BY <1>1 DEF Inv, FormOK
    <3>2. (form.kind \in Strips) \in BOOLEAN
      OBVIOUS
    <3>3. CASE put
      BY <1>1, <2>2, <3>2, <3>3, Zenon
    <3>4. CASE ~put
      BY <1>1, <2>2, <3>1, <3>4, Zenon
    <3> QED BY <3>3, <3>4
  <2> QED BY <2>3, <2>4 DEF FormOK
<1>10. OpenedAsIs'
  BY <1>1 DEF OpenedAsIs
<1>11. SwitchKeepsSecret'
  <2>1. SecretIn(form') = IF put THEN IF form.kind \in Strips THEN Trimmed[s] ELSE s
                          ELSE SecretIn(form)
    <3>1. SecretIn(f) = DraftOf(form.kind, [form.in EXCEPT ![field] = s]).secret
      BY <1>6 DEF SecretIn
    <3>2. SecretIn(form') = SecretIn(f)
      BY <1>1 DEF SecretIn
    <3>3. DraftOf(form.kind, [form.in EXCEPT ![field] = s]).secret =
             IF put THEN IF form.kind \in Strips THEN Trimmed[s] ELSE s
             ELSE DraftOf(form.kind, form.in).secret
      <4> DEFINE to == [form.in EXCEPT ![field] = s]
      <4>1. /\ form.kind \in Kinds /\ form.in \in InputsOf(form.kind)
            /\ field \in Fields(form.kind)
        BY <1>1, <1>4
      <4>2. to = [form.in EXCEPT ![field] = s]
        OBVIOUS
      <4> HIDE DEF f, to
      <4>3. DraftOf(form.kind, to).secret =
               IF put THEN IF form.kind \in Strips THEN Trimmed[s] ELSE s
               ELSE DraftOf(form.kind, form.in).secret
        BY <4>1, <4>2, SecretTyped
      <4> QED BY <4>3 DEF to
    <3> HIDE DEF f
    <3> QED BY <3>1, <3>2, <3>3 DEF SecretIn
  <2> HIDE DEF f
  <2>2. CASE put
    BY <1>1, <2>1, <2>2 DEF SwitchKeepsSecret, SecretIn
  <2>3. CASE ~put
    BY <1>1, <2>1, <2>3 DEF Inv, SwitchKeepsSecret, SecretIn
  <2> QED BY <2>2, <2>3
<1> QED BY <1>8, <1>9, <1>10, <1>11 DEF Inv

LEMMA CtrlTKeeps ==
    ASSUME Inv, CtrlT
    PROVE  Inv'
<1> DEFINE k == NextKind(form.kind)
           in == InputsFor(k, DraftOf(form.kind, form.in))
           f == [id |-> form.id, kind |-> k, in |-> in]
<1>1. /\ form # None /\ form' = f /\ opened' = None
      /\ stripped' = (stripped \/ k \in Strips)
      /\ secret' = secret /\ stored' = stored /\ status' = status
  BY DEF CtrlT
<1>2. form \in Forms /\ (form.kind \in Strips => stripped)
  BY <1>1 DEF Inv, FormOK
<1>3. /\ form.id \in Ids \cup {None} /\ form.kind \in Kinds
      /\ form.in \in InputsOf(form.kind)
  BY <1>2, FormParts
<1>4. k \in Kinds /\ in \in InputsOf(k)
  BY <1>3, NextIsKind, DraftType, InputsType
<1>6. f \in Forms
  BY <1>3, <1>4, IsForm
<1>7. StoredOK'
  BY <1>1 DEF Inv, StoredOK, Items
<1>8. FormOK'
  <2>1. form'.kind = k
    BY <1>1
  <2> QED BY <1>1, <1>6, <2>1 DEF Inv, FormOK
<1>9. OpenedAsIs'
  BY <1>1 DEF OpenedAsIs
<1>10. SwitchKeepsSecret'
  <2> SUFFICES ASSUME stripped' => ~Blank(secret')
               PROVE  SecretIn(form') = IF stripped' THEN Trimmed[secret'] ELSE secret'
    BY DEF SwitchKeepsSecret, Blank, SecretIn
  <2>1. SecretIn(form) = IF stripped THEN Trimmed[secret] ELSE secret
    BY <1>1 DEF Inv, SwitchKeepsSecret, Blank
  <2>2. secret \in Strings /\ stripped \in BOOLEAN
    BY DEF Inv, FormOK
  <2>3. k \in Strips \/ form.kind \in Strips => ~Blank(SecretIn(form))
    BY <1>1, <1>2, <2>1, <2>2, Trim DEF Blank
  <2>4. DraftOf(k, in).secret = IF k \in Strips THEN Trimmed[SecretIn(form)] ELSE SecretIn(form)
    BY <1>3, <2>3, SwitchKeeps DEF SecretIn
  <2>5. form'.kind = k /\ form'.in = in
    BY <1>1
  <2>6. SecretIn(form') = DraftOf(k, in).secret
    BY <2>5 DEF SecretIn
  <2> HIDE DEF k, in, f
  <2> QED BY <1>1, <2>1, <2>2, <2>4, <2>6, Trim
<1> QED BY <1>7, <1>8, <1>9, <1>10 DEF Inv

(* Closing the form, with or without a save. *)
LEMMA StoredAfter ==
    ASSUME Inv, form # None, stored' \in Saves
    PROVE  StoredOK'
<1>1. form \in [id : Ids \cup {None}, kind : Kinds, in : InputsOf(form.kind)]
  BY FormParts DEF Inv, FormOK
<1>2. /\ DOMAIN stored' = Ids
      /\ \A id \in Ids : stored'[id] # None =>
            /\ stored'[id] \in ContentsOf(KindOf(id))
            /\ Clean(KindOf(id), stored'[id])
  BY <1>1, SavesKeep DEF Inv
<1> QED BY <1>2 DEF StoredOK, Items

LEMMA CtrlSKeeps ==
    ASSUME Inv, CtrlS
    PROVE  Inv'
<1>1. /\ form # None /\ stored' \in Saves /\ status' = "saved"
      /\ form' = None /\ opened' = None /\ secret' = Empty /\ stripped' = FALSE
  BY DEF CtrlS, Closed
<1>2. StoredOK'
  BY <1>1, StoredAfter
<1>3. FormOK' /\ OpenedAsIs' /\ SwitchKeepsSecret'
  BY <1>1, EmptyString DEF FormOK, OpenedAsIs, SwitchKeepsSecret
<1> QED BY <1>2, <1>3 DEF Inv

LEMMA CtrlSFailsKeeps ==
    ASSUME Inv, CtrlSFails
    PROVE  Inv'
<1>1. /\ form # None /\ status' = "unsaved"
      /\ form' = form /\ opened' = opened /\ secret' = secret /\ stripped' = stripped
  BY DEF CtrlSFails
<1>2. StoredOK'
  <2>1. CASE stored' = stored
    BY <2>1 DEF Inv, StoredOK, Items
  <2>2. CASE stored' \in Saves
    BY <1>1, <2>2, StoredAfter
  <2> QED BY <2>1, <2>2 DEF CtrlSFails
<1>3. FormOK' /\ OpenedAsIs' /\ SwitchKeepsSecret'
  BY <1>1 DEF Inv, FormOK, OpenedAsIs, SwitchKeepsSecret, SecretIn
<1> QED BY <1>2, <1>3 DEF Inv

LEMMA EscKeeps ==
    ASSUME Inv, Esc
    PROVE  Inv'
<1>1. /\ form' = None /\ opened' = None /\ secret' = Empty /\ stripped' = FALSE
      /\ stored' = stored /\ status' = status
  BY DEF Esc, Closed
<1>2. StoredOK'
  BY <1>1 DEF Inv, StoredOK, Items
<1>3. FormOK' /\ OpenedAsIs' /\ SwitchKeepsSecret'
  BY <1>1, EmptyString DEF Inv, FormOK, OpenedAsIs, SwitchKeepsSecret
<1> QED BY <1>2, <1>3 DEF Inv

LEMMA OtherKeeps ==
    ASSUME Inv, NEW id \in Ids, OtherClient(id)
    PROVE  Inv'
<1>1. /\ id \in Items
      /\ form' = form /\ opened' = opened /\ secret' = secret /\ stripped' = stripped
      /\ status' = status
  BY DEF OtherClient
<1>2. PICK v \in Changed(stored[id]) \cup {None} : stored' = [stored EXCEPT ![id] = v]
  BY DEF OtherClient
<1>3. stored[id] \in ContentsOf(KindOf(id)) /\ Clean(KindOf(id), stored[id])
  BY <1>1 DEF Inv, StoredOK
<1>4. v # None => v \in ContentsOf(KindOf(id)) /\ Clean(KindOf(id), v)
  <2> SUFFICES ASSUME v \in Changed(stored[id])
               PROVE  v \in ContentsOf(KindOf(id)) /\ Clean(KindOf(id), v)
    BY <1>2
  <2> DEFINE w == stored[id]
  <2>1. CASE KindOf(id) = "card"
    <3>1. /\ w \in ContentsOf("card") /\ Clean("card", w)
          /\ "cvc" \in DOMAIN w
      BY <1>3, <2>1 DEF ContentsOf
    <3> HIDE DEF w
    <3>2. PICK n \in DOMAIN Itoa : v = [w EXCEPT !.cvc = n]
      BY <3>1 DEF Changed, w
    <3> QED BY <2>1, <3>1, <3>2 DEF ContentsOf, Clean
  <2>2. CASE KindOf(id) \in {"text", "creds"}
    <3>1. "cvc" \notin DOMAIN w
      <4>1. CASE KindOf(id) = "text"
        BY <1>3, <4>1 DEF ContentsOf
      <4>2. CASE KindOf(id) = "creds"
        BY <1>3, <4>2 DEF ContentsOf
      <4> QED BY <2>2, <4>1, <4>2
    <3>2. PICK s \in Typed.secret : v = [w EXCEPT !.secret = s]
      BY <3>1 DEF Changed
    <3>3. s \in Strings
      <4>1. Typed["secret"] \subseteq Strings
        BY EditorAssumption
      <4> QED BY <3>2, <4>1
    <3>4. w \in ContentsOf(KindOf(id)) /\ Clean(KindOf(id), w)
      BY <1>3
    <3> HIDE DEF w
    <3> QED BY <2>2, <3>2, <3>3, <3>4 DEF ContentsOf, Clean
  <2> QED BY <2>1, <2>2, IdKinds DEF Stored
<1>5. StoredOK'
  <2>1. /\ DOMAIN stored' = Ids /\ stored'[id] = v
        /\ \A i \in Ids \ {id} : stored'[i] = stored[i]
    BY <1>2 DEF Inv, StoredOK
  <2> QED BY <1>4, <2>1 DEF Inv, StoredOK, Items
<1>6. FormOK' /\ OpenedAsIs' /\ SwitchKeepsSecret'
  BY <1>1 DEF Inv, FormOK, OpenedAsIs, SwitchKeepsSecret, SecretIn
<1> QED BY <1>5, <1>6 DEF Inv

LEMMA NextInv == Inv /\ [Next]_vars => Inv'
<1> SUFFICES ASSUME Inv, [Next]_vars PROVE Inv'
  OBVIOUS
<1>1. CASE OpenCreateEditor
  BY <1>1, CreateKeeps
<1>2. ASSUME NEW id \in Ids, OpenEditEditor(id) PROVE Inv'
  BY <1>2, EditKeeps
<1>3. ASSUME NEW id \in Ids, OtherClient(id) PROVE Inv'
  BY <1>3, OtherKeeps
<1>4. ASSUME NEW field \in DOMAIN Typed, NEW s \in Typed[field], Type(field, s) PROVE Inv'
  BY <1>4, TypeKeeps
<1>5. CASE CtrlT
  BY <1>5, CtrlTKeeps
<1>6. CASE CtrlS
  BY <1>6, CtrlSKeeps
<1>7. CASE CtrlSFails
  BY <1>7, CtrlSFailsKeeps
<1>8. CASE Esc
  BY <1>8, EscKeeps
<1>9. CASE UNCHANGED vars
  <2>1. /\ stored' = stored /\ form' = form /\ status' = status
        /\ opened' = opened /\ secret' = secret /\ stripped' = stripped
    BY <1>9 DEF vars
  <2>2. StoredOK'
    BY <2>1 DEF Inv, StoredOK, Items
  <2>3. FormOK' /\ OpenedAsIs' /\ SwitchKeepsSecret'
    BY <2>1 DEF Inv, FormOK, OpenedAsIs, SwitchKeepsSecret, SecretIn
  <2> QED BY <2>2, <2>3 DEF Inv
<1> QED BY <1>1, <1>2, <1>3, <1>4, <1>5, <1>6, <1>7, <1>8, <1>9 DEF Next

LEMMA SpecInv == Spec => []Inv
BY InitInv, NextInv, PTL DEF Spec

(* The types, and what a card and its date must be: TypeOK of Editor. *)
THEOREM TypeCorrect == Spec => []TypeOK
BY SpecInv, TypeFromInv, PTL

(* ctrl+t never loses the secret in the form, however often it is pressed and
   whatever is typed in between. *)
THEOREM SecretKept == Spec => []SwitchKeepsSecret
<1>1. Inv => SwitchKeepsSecret
  BY DEF Inv
<1> QED BY <1>1, SpecInv, PTL

(***************************************************************************)
(* What a save does.                                                       *)
(***************************************************************************)
LEMMA SavedIs ==
    ASSUME Inv, [Next]_vars, Saved
    PROVE  LET d == DraftOf(form.kind, form.in) IN
           /\ form \in Forms /\ d \in Drafts /\ CleanDraft(d)
           /\ Valid(d)
           /\ \/ form.id = None /\ stored' \in Created(d)
              \/ form.id # None /\ form.id \in Ids /\ stored' \in Updated(form.id, d)
<1> DEFINE d == DraftOf(form.kind, form.in)
<1>1. form # None /\ status = "unsaved" /\ status' = "saved" /\ form \in Forms
  BY DEF Saved, Inv, FormOK
<1>2. CtrlS
  <2>1. ~OpenCreateEditor /\ ~CtrlSFails
    BY <1>1 DEF OpenCreateEditor, Open, CtrlSFails
  <2>2. \A id \in Ids : ~OpenEditEditor(id) /\ ~OtherClient(id)
    BY <1>1 DEF OpenEditEditor, Open, OtherClient
  <2>3. \A field \in DOMAIN Typed : \A s \in Typed[field] : ~Type(field, s)
    BY <1>1 DEF Type
  <2>4. ~CtrlT /\ ~Esc /\ ~UNCHANGED vars
    BY <1>1 DEF CtrlT, Esc, vars
  <2> QED BY <2>1, <2>2, <2>3, <2>4 DEF Next
<1>3. /\ form.id \in Ids \cup {None} /\ form.kind \in Kinds
      /\ form.in \in InputsOf(form.kind)
  BY <1>1, FormParts
<1>4. d \in Drafts /\ CleanDraft(d)
  BY <1>3, DraftType, DraftClean
<1>5. stored' \in Saves
  BY <1>2 DEF CtrlS
<1>6. /\ Valid(d)
      /\ stored' \in IF form.id = None THEN Created(d) ELSE Updated(form.id, d)
  BY <1>5 DEF Saves
<1> QED BY <1>1, <1>3, <1>4, <1>6

(* An edit stays with its item: EditsOwnItem of Editor. *)
THEOREM EditsStay == Spec => EditsOwnItem
<1> DEFINE A == Saved /\ form.id # None =>
                  /\ \A id \in Ids \ {form.id} : stored'[id] = stored[id]
                  /\ form.id \in Items
                  /\ DOMAIN stored'[form.id] = DOMAIN stored[form.id]
                  /\ stored'[form.id].desc = stored[form.id].desc
<1>1. Inv /\ [Next]_vars => A
  <2> SUFFICES ASSUME Inv, [Next]_vars, Saved, form.id # None
               PROVE  /\ \A id \in Ids \ {form.id} : stored'[id] = stored[id]
                      /\ form.id \in Items
                      /\ DOMAIN stored'[form.id] = DOMAIN stored[form.id]
                      /\ stored'[form.id].desc = stored[form.id].desc
    OBVIOUS
  <2> DEFINE d == DraftOf(form.kind, form.in)
  <2>1. d \in Drafts /\ CleanDraft(d) /\ form.id \in Ids /\ stored' \in Updated(form.id, d)
    BY SavedIs
  <2> HIDE DEF d
  <2> QED BY <2>1, UpdatedIs DEF Inv
<1>2. Inv /\ [Next]_vars => [A]_vars
  BY <1>1
<1> QED BY <1>2, SpecInv, PTL DEF Spec, EditsOwnItem

(* The draft of a form for a card: the number is its login and the CVC its
   secret. *)
LEMMA CardDraft ==
    ASSUME NEW in \in InputsOf("card")
    PROVE  LET d == DraftOf("card", in) IN
           /\ d \in Drafts
           /\ d.type = "card" /\ d.title = Trimmed[in.title]
           /\ d.meta.system = Trimmed[in.system] /\ d.meta.number = Trimmed[in.number]
           /\ d.meta.holder = Trimmed[in.holder] /\ d.meta.cvc = Trimmed[in.cvc]
           /\ d.meta.desc = Trimmed[in.desc] /\ d.meta.end = in.end
           /\ d.login = d.meta.number /\ d.secret = d.meta.cvc
           /\ Filled(d).number = d.meta.number /\ Filled(d).cvc = d.meta.cvc
<1> DEFINE d == DraftOf("card", in)
<1>1. d \in Drafts
  BY DraftType DEF Kinds
<1>2. /\ d.type = "card" /\ d.title = Trimmed[in.title]
      /\ d.meta.system = Trimmed[in.system] /\ d.meta.number = Trimmed[in.number]
      /\ d.meta.holder = Trimmed[in.holder] /\ d.meta.cvc = Trimmed[in.cvc]
      /\ d.meta.desc = Trimmed[in.desc] /\ d.meta.end = in.end
      /\ d.login = d.meta.number /\ d.secret = d.meta.cvc
  BY DEF DraftOf, Draft, CardMeta
<1> HIDE DEF d
<1>3. Filled(d).number = d.meta.number /\ Filled(d).cvc = d.meta.cvc
  BY <1>1, <1>2, FilledIs
<1> QED BY <1>1, <1>2, <1>3 DEF d

(* The form that is opened on a card shows its fields. *)
LEMMA CardShown ==
    ASSUME NEW id \in Ids, KindOf(id) = "card", NEW v \in ContentsOf("card")
    PROVE  LET in == Shown(id, v) IN
           /\ in \in InputsOf("card")
           /\ in.title = NameOf(id) /\ in.desc = v.desc
           /\ in.system = v.system /\ in.number = v.number /\ in.holder = v.holder
           /\ in.cvc = Itoa[v.cvc] /\ in.end = v.end
<1> DEFINE i == ItemDraft(id, v)
           in == Shown(id, v)
<1>1. /\ i \in Drafts /\ i.title = NameOf(id) /\ i.login = v.number /\ i.secret = Itoa[v.cvc]
      /\ i.meta.desc = v.desc /\ i.meta.system = v.system /\ i.meta.number = v.number
      /\ i.meta.holder = v.holder /\ i.meta.cvc = Itoa[v.cvc] /\ i.meta.end = v.end
  <2>1. i \in Drafts
    BY ItemDraftType
  <2> QED BY <2>1 DEF ItemDraft, Draft
<1>2. /\ Filled(i).desc = v.desc /\ Filled(i).system = v.system
      /\ Filled(i).number = v.number /\ Filled(i).holder = v.holder
      /\ Filled(i).cvc = Itoa[v.cvc] /\ Filled(i).end = v.end
  <2> HIDE DEF i
  <2> QED BY <1>1, FilledIs
<1>3. in = [title |-> i.title, desc |-> Filled(i).desc, system |-> Filled(i).system,
            number |-> Filled(i).number, holder |-> Filled(i).holder,
            cvc |-> Filled(i).cvc, end |-> Filled(i).end]
  BY DEF Shown, InputsFor
<1>4. in \in InputsOf("card")
  BY ShownType
<1> QED BY <1>1, <1>2, <1>3, <1>4

(* Opened and saved as it is, an item keeps its content. *)
LEMMA RoundTrip ==
    ASSUME NEW id \in Ids, NEW o \in ContentsOf(KindOf(id)), Clean(KindOf(id), o),
           NEW v \in Contents(KindOf(id), DraftOf(KindOf(id), Shown(id, o))),
           NEW x \in Strings
    PROVE  [v EXCEPT !.desc = x] = [o EXCEPT !.desc = x]
<1> DEFINE in == Shown(id, o)
           d == DraftOf(KindOf(id), in)
<1>1. CASE KindOf(id) = "text"
  <2>1. v = [secret |-> o.secret, desc |-> v.desc]
    BY <1>1 DEF Contents, DraftOf, Draft, Raw, Shown, InputsFor, ItemDraft
  <2>2. o = [secret |-> o.secret, desc |-> o.desc]
    BY <1>1 DEF ContentsOf
  <2> QED BY <2>1, <2>2
<1>2. CASE KindOf(id) = "creds"
  <2>1. v = [login |-> Trimmed[o.login], secret |-> o.secret, desc |-> v.desc]
    BY <1>2 DEF Contents, DraftOf, Draft, Raw, Shown, InputsFor, ItemDraft
  <2>2. o = [login |-> o.login, secret |-> o.secret, desc |-> o.desc]
    BY <1>2 DEF ContentsOf
  <2>3. Trimmed[o.login] = o.login
    BY <1>2 DEF Clean
  <2> QED BY <2>1, <2>2, <2>3
<1>3. CASE KindOf(id) = "card"
  <2>1. /\ in \in InputsOf("card")
        /\ in.system = o.system /\ in.number = o.number /\ in.holder = o.holder
        /\ in.cvc = Itoa[o.cvc] /\ in.end = o.end
    BY <1>3, CardShown
  <2>2. /\ o.cvc \in DOMAIN Itoa /\ o.end \in Seq(Nat) /\ IsDate(o.end)
        /\ o = [system |-> o.system, number |-> o.number, holder |-> o.holder,
                cvc |-> o.cvc, end |-> o.end, desc |-> o.desc]
    BY <1>3 DEF ContentsOf
  <2> HIDE DEF in
  <2>3. /\ d \in Drafts
        /\ d.meta.system = o.system /\ Filled(d).number = o.number
        /\ d.meta.holder = o.holder /\ Filled(d).cvc = Itoa[o.cvc]
        /\ d.meta.end = o.end
    BY <1>3, <2>1, <2>2, CardDraft, Numerals DEF Clean
  <2>4. v \in CardContents(d)
    BY <1>3 DEF Contents, in
  <2> HIDE DEF d
  <2>5. PICK p \in Parsed(d) :
          v = [system |-> p.system, number |-> p.number, holder |-> p.holder,
               cvc |-> Numeral[p.cvc], end |-> p.end, desc |-> p.desc]
    BY <2>3, <2>4, CardContentIs
  <2>6. /\ p.system = o.system /\ p.number = o.number /\ p.holder = o.holder
        /\ p.cvc = Itoa[o.cvc] /\ p.end \in Normalised(o.end)
    BY <2>3, ParsedIs
  <2>7. p.end = o.end
    <3>1. Len(o.end) = 3
      BY <2>2 DEF IsDate
    <3> QED BY <2>6, <3>1, FullDate
  <2>8. Numeral[p.cvc] = o.cvc
    BY <2>2, <2>6, Numerals
  <2>9. v = [system |-> o.system, number |-> o.number, holder |-> o.holder,
             cvc |-> o.cvc, end |-> o.end, desc |-> p.desc]
    BY <2>5, <2>6, <2>7, <2>8
  <2> QED BY <2>2, <2>9
<1> QED BY <1>1, <1>2, <1>3, IdKinds DEF Stored

(* To open an item and to save it changes nothing: ResaveKeeps of Editor. *)
THEOREM ResavesKeep == Spec => ResaveKeeps
<1> DEFINE A == Saved /\ opened # None =>
                  stored'[form.id] = [opened EXCEPT !.desc = stored[form.id].desc]
<1>1. Inv /\ [Next]_vars => A
  <2> SUFFICES ASSUME Inv, [Next]_vars, Saved, opened # None
               PROVE  stored'[form.id] = [opened EXCEPT !.desc = stored[form.id].desc]
    OBVIOUS
  <2> DEFINE d == DraftOf(form.kind, form.in)
  <2>1. /\ form.id \in Ids /\ form.kind = KindOf(form.id)
        /\ opened \in ContentsOf(KindOf(form.id)) /\ Clean(KindOf(form.id), opened)
        /\ form.in = Shown(form.id, opened)
    BY DEF Inv, OpenedAsIs
  <2>2. form.id # None
    BY <2>1, NoneIsNoId
  <2>3. d \in Drafts /\ CleanDraft(d) /\ stored' \in Updated(form.id, d)
    BY <2>2, SavedIs
  <2> HIDE DEF d
  <2>4. form.id \in Items /\ \E v \in Contents(KindOf(form.id), d) :
                stored'[form.id] = [v EXCEPT !.desc = stored[form.id].desc]
    BY <2>1, <2>3, UpdatedIs DEF Inv
  <2>5. stored[form.id].desc \in Strings
    BY <2>1, <2>4, SameFields, IdKinds DEF Inv, StoredOK
  <2>6. d = DraftOf(KindOf(form.id), Shown(form.id, opened))
    BY <2>1 DEF d
  <2> QED BY <2>1, <2>4, <2>5, <2>6, RoundTrip
<1>2. Inv /\ [Next]_vars => [A]_vars
  BY <1>1
<1> QED BY <1>2, SpecInv, PTL DEF Spec, ResaveKeeps

(* A secret that has been accepted is not blank, whatever the kind of the form. *)
LEMMA ValidDraft ==
    ASSUME NEW k \in Kinds, NEW in \in InputsOf(k), Valid(DraftOf(k, in))
    PROVE  LET d == DraftOf(k, in) IN
           /\ ~Blank(d.secret)
           /\ k \in {"creds", "card"} => d.login # Empty
<1> DEFINE d == DraftOf(k, in)
<1>1. CASE k = "text"
  <2>1. d.type = "text"
    BY <1>1 DEF DraftOf, Draft
  <2> QED BY <1>1, <2>1 DEF Valid
<1>2. CASE k = "creds"
  <2>1. d.type = "creds"
    BY <1>2 DEF DraftOf, Draft
  <2> QED BY <1>2, <2>1 DEF Valid, ValidCreds
<1>3. CASE k = "card"
  <2>1. /\ d \in Drafts /\ d.type = "card" /\ d.secret = Trimmed[in.cvc]
        /\ in.cvc \in Strings
        /\ d.login = Filled(d).number /\ d.secret = Filled(d).cvc
    BY <1>3, CardDraft DEF InputsOf
  <2>2. Parsed(d) # {}
    BY <2>1 DEF Valid
  <2> HIDE DEF d
  <2>3. PICK p \in Parsed(d) : TRUE
    BY <2>2
  <2>4. d.login # Empty /\ d.secret # Empty
    BY <2>1, <2>3, ParsedIs
  <2> QED BY <2>1, <2>4, Trim DEF Blank, d
<1>4. CASE k = "binary"
  <2>1. d.type = "binary"
    BY <1>4 DEF DraftOf, Draft
  <2> QED BY <1>4, <2>1 DEF Valid
<1> QED BY <1>1, <1>2, <1>3, <1>4 DEF Kinds

LEMMA DraftKind ==
    ASSUME NEW k \in Kinds, NEW in
    PROVE  DraftOf(k, in).type = k
BY DEF Kinds, DraftOf, Draft

LEMMA CompleteContents ==
    ASSUME NEW k \in Kinds, NEW in \in InputsOf(k), Valid(DraftOf(k, in)),
           NEW j \in Stored, NEW v \in Contents(j, DraftOf(k, in)), NEW x
    PROVE  \/ Complete(j, v) /\ Complete(j, [v EXCEPT !.desc = x])
           \/ j = "creds" /\ k \in {"text", "binary"}
<1> DEFINE d == DraftOf(k, in)
<1>1. ~Blank(d.secret) /\ (k \in {"creds", "card"} => d.login # Empty)
  BY ValidDraft
<1>2. d \in Drafts
  BY DraftType
<1> HIDE DEF d
<1>3. CASE j = "text"
  <2>1. v = [secret |-> d.secret, desc |-> d.meta.desc]
    BY <1>3 DEF Contents, d
  <2> QED BY <1>1, <1>3, <2>1 DEF Complete
<1>4. CASE j = "creds" /\ k \notin {"text", "binary"}
  <2>1. v = [login |-> d.login, secret |-> d.secret, desc |-> d.meta.desc]
    BY <1>4 DEF Contents, d
  <2>2. k \in {"creds", "card"}
    BY <1>4 DEF Kinds
  <2> QED BY <1>1, <1>4, <2>1, <2>2 DEF Complete
<1>5. CASE j = "card"
  <2>1. v \in ContentsOf("card")
    BY <1>2, <1>5, ContentsType DEF d
  <2>2. /\ v.system # Empty /\ v.number # Empty /\ v.holder # Empty /\ IsDate(v.end)
    BY <2>1 DEF ContentsOf, Filling
  <2>3. LET w == [v EXCEPT !.desc = x] IN
        w.system = v.system /\ w.number = v.number /\ w.holder = v.holder /\ w.end = v.end
    BY <2>1 DEF ContentsOf
  <2> QED BY <1>5, <2>2, <2>3 DEF Complete
<1> QED BY <1>3, <1>4, <1>5 DEF Stored

(* A saved item has what its kind asks for, credentials that are saved as another
   kind excepted: SavedIsComplete of Editor. *)
THEOREM SavesComplete == Spec => SavedIsComplete
<1> DEFINE A == Saved =>
                  \A id \in Ids : stored'[id] # stored[id] =>
                      \/ Complete(KindOf(id), stored'[id])
                      \/ KindOf(id) = "creds" /\ form.kind \in {"text", "binary"}
<1>1. Inv /\ [Next]_vars => A
  <2> SUFFICES ASSUME Inv, [Next]_vars, Saved,
                      NEW id \in Ids, stored'[id] # stored[id]
               PROVE  \/ Complete(KindOf(id), stored'[id])
                      \/ KindOf(id) = "creds" /\ form.kind \in {"text", "binary"}
    OBVIOUS
  <2> DEFINE d == DraftOf(form.kind, form.in)
  <2>1. /\ d \in Drafts /\ CleanDraft(d) /\ Valid(d)
        /\ \/ stored' \in Created(d)
           \/ form.id \in Ids /\ stored' \in Updated(form.id, d)
    BY SavedIs
  <2>2. form.kind \in Kinds /\ form.in \in InputsOf(form.kind)
    BY SavedIs, FormParts
  <2>3. \A j \in Stored : \A v \in Contents(j, d) : \A x :
          \/ Complete(j, v) /\ Complete(j, [v EXCEPT !.desc = x])
          \/ j = "creds" /\ form.kind \in {"text", "binary"}
    BY <2>1, <2>2, CompleteContents
  <2>4. KindOf(id) \in Stored
    BY IdKinds
  <2> HIDE DEF d
  <2>5. CASE stored' \in Created(d)
    <3>1. /\ d.type \in Stored
          /\ \E v \in Contents(d.type, d) : stored' = [stored EXCEPT ![<<d.type, d.title>>] = v]
      BY <2>1, <2>5, CreatedIs DEF Inv
    <3>2. PICK v \in Contents(d.type, d) :
            stored' = [stored EXCEPT ![<<d.type, d.title>>] = v]
      BY <3>1
    <3>3. id = <<d.type, d.title>> /\ stored'[id] = v
      BY <3>2 DEF Inv, StoredOK
    <3>4. KindOf(id) = d.type
      BY <3>3 DEF KindOf
    <3> QED BY <2>3, <3>1, <3>3, <3>4
  <2>6. CASE form.id \in Ids /\ stored' \in Updated(form.id, d)
    <3>1. /\ \A i \in Ids \ {form.id} : stored'[i] = stored[i]
          /\ \E v \in Contents(KindOf(form.id), d) :
                stored'[form.id] = [v EXCEPT !.desc = stored[form.id].desc]
      BY <2>1, <2>6, UpdatedIs DEF Inv
    <3>2. id = form.id
      BY <3>1
    <3> QED BY <2>3, <2>4, <3>1, <3>2
  <2> QED BY <2>1, <2>5, <2>6
<1>2. Inv /\ [Next]_vars => [A]_vars
  BY <1>1
<1> QED BY <1>2, SpecInv, PTL DEF Spec, SavedIsComplete

(***************************************************************************)
(* What is shown of a save.                                                *)
(***************************************************************************)
LEMMA EndAgrees ==
    ASSUME NEW e \in Seq(Nat), NEW d \in Normalised(e)
    PROVE  Agree("end", e, d)
<1>1. CASE Len(e) = 3
  BY <1>1, FullDate DEF Agree
<1>2. CASE Len(e) # 3
  <2>8. Len(e) = 2
    BY <1>2, Dates
  <2>9. e[2] \in Nat
    BY <2>8
  <2> DEFINE m == e[1]
             y == Century(e[2])
             n == DaysIn(m, y)
  <2>1. Len(e) = 2 /\ m \in 1..12 /\ y \in 2000..2099 /\ d = <<n, m, y>>
    BY <1>2, Dates
  <2>2. y % 100 = e[2] % 100
    <3>2. \A a \in Nat : (a + 2000) % 100 = a % 100
      OBVIOUS
    <3> QED BY <2>9, <3>2 DEF Century
  <2>3. n \in 28..31
    BY DaysInRange
  <2>4. ~IsDate(<<n + 1, m, y>>)
    <3> HIDE DEF m, y
    <3> QED BY <2>3 DEF IsDate, n
  <2> HIDE DEF m, y, n
  <2>5. d[2] = m /\ d[3] = y /\ [d EXCEPT ![1] = @ + 1] = <<n + 1, m, y>>
    BY <2>1
  <2>6. EndsMonth(d)
    BY <2>4, <2>5 DEF EndsMonth
  <2>7. d[2] = e[1] /\ d[3] % 100 = e[2] % 100 /\ d[3] \in 2000..2099
    BY <2>1, <2>2, <2>5 DEF m
  <2> QED BY <1>2, <2>6, <2>7 DEF Agree
<1> QED BY <1>1, <1>2

(* w is what is stored under id once v has been saved from the form in: v itself
   when it is new, v with the description it had when it is an edit. *)
Writes(id, in, v, w, edit) ==
    IF edit THEN w = [v EXCEPT !.desc = w.desc]
            ELSE w = v /\ NameOf(id) = Trimmed[in.title]

ShowsIt(id, k, in, w, edit) ==
    \A field \in Fields(k) :
        \/ edit /\ field \in {"title", "desc"}
        \/ field = "desc" /\ k = "card" /\ Blank(in.desc)
        \/ Agree(field, in[field], Shown(id, w)[field])

LEMMA TextShown ==
    ASSUME NEW id \in Ids, KindOf(id) = "text", NEW in \in InputsOf("text"),
           NEW v \in Contents("text", DraftOf("text", in)),
           NEW w \in ContentsOf("text"), NEW edit \in BOOLEAN, Writes(id, in, v, w, edit)
    PROVE  ShowsIt(id, "text", in, w, edit)
<1> DEFINE shown == Shown(id, w)
<1>1. v = [secret |-> in.secret, desc |-> Trimmed[in.desc]]
  BY DEF Contents, DraftOf, Draft, Raw, Plain
<1>2. shown.title = NameOf(id) /\ shown.secret = w.secret /\ shown.desc = w.desc
  BY DEF Shown, InputsFor, ItemDraft, Draft, Plain
<1>3. w.secret = in.secret /\ (~edit => w.desc = Trimmed[in.desc])
  BY <1>1 DEF Writes
<1> HIDE DEF shown
<1>4. Agree("secret", in.secret, shown.secret)
  BY <1>2, <1>3 DEF Agree
<1>5. ~edit => Agree("title", in.title, shown.title) /\ Agree("desc", in.desc, shown.desc)
  BY <1>2, <1>3 DEF Agree, Writes
<1> QED BY <1>4, <1>5 DEF ShowsIt, Fields, shown

LEMMA CredsShown ==
    ASSUME NEW id \in Ids, KindOf(id) = "creds", NEW in \in InputsOf("creds"),
           NEW v \in Contents("creds", DraftOf("creds", in)),
           NEW w \in ContentsOf("creds"), NEW edit \in BOOLEAN, Writes(id, in, v, w, edit)
    PROVE  ShowsIt(id, "creds", in, w, edit)
<1> DEFINE shown == Shown(id, w)
<1>1. v = [login |-> Trimmed[in.login], secret |-> in.secret, desc |-> Trimmed[in.desc]]
  BY DEF Contents, DraftOf, Draft, Raw, Plain
<1>2. /\ shown.title = NameOf(id) /\ shown.login = w.login
      /\ shown.secret = w.secret /\ shown.desc = w.desc
  BY DEF Shown, InputsFor, ItemDraft, Draft, Plain
<1>3. /\ w.login = Trimmed[in.login] /\ w.secret = in.secret
      /\ ~edit => w.desc = Trimmed[in.desc]
  BY <1>1 DEF Writes
<1> HIDE DEF shown
<1>4. Agree("secret", in.secret, shown.secret) /\ Agree("login", in.login, shown.login)
  BY <1>2, <1>3 DEF Agree
<1>5. ~edit => Agree("title", in.title, shown.title) /\ Agree("desc", in.desc, shown.desc)
  BY <1>2, <1>3 DEF Agree, Writes
<1> QED BY <1>4, <1>5 DEF ShowsIt, Fields, shown

LEMMA SavedCardShown ==
    ASSUME NEW id \in Ids, KindOf(id) = "card", NEW in \in InputsOf("card"),
           NEW v \in Contents("card", DraftOf("card", in)),
           NEW w \in ContentsOf("card"), NEW edit \in BOOLEAN, Writes(id, in, v, w, edit)
    PROVE  ShowsIt(id, "card", in, w, edit)
<1> DEFINE shown == Shown(id, w)
           d == DraftOf("card", in)
<1>1. /\ d \in Drafts /\ d.title = Trimmed[in.title]
      /\ d.meta.system = Trimmed[in.system] /\ d.meta.holder = Trimmed[in.holder]
      /\ d.meta.desc = Trimmed[in.desc] /\ d.meta.end = in.end
      /\ Filled(d).number = Trimmed[in.number] /\ Filled(d).cvc = Trimmed[in.cvc]
  BY CardDraft
<1>2. v \in CardContents(d)
  BY DEF Contents
<1> HIDE DEF d
<1>3. PICK p \in Parsed(d) :
        /\ p.cvc \in DOMAIN Numeral
        /\ v = [system |-> p.system, number |-> p.number, holder |-> p.holder,
                cvc |-> Numeral[p.cvc], end |-> p.end, desc |-> p.desc]
  BY <1>1, <1>2, CardContentIs
<1>4. /\ p.system = Trimmed[in.system] /\ p.number = Trimmed[in.number]
      /\ p.holder = Trimmed[in.holder] /\ p.cvc = Trimmed[in.cvc]
      /\ p.end \in Normalised(in.end)
      /\ p.desc = IF Trimmed[in.desc] = Empty THEN d.title ELSE Trimmed[in.desc]
  BY <1>1, ParsedIs
<1>5. /\ w.system = p.system /\ w.number = p.number /\ w.holder = p.holder
      /\ w.cvc = Numeral[p.cvc] /\ w.end = p.end
      /\ ~edit => w.desc = p.desc
  BY <1>3 DEF Writes
<1>6. /\ shown.title = NameOf(id) /\ shown.desc = w.desc /\ shown.system = w.system
      /\ shown.number = w.number /\ shown.holder = w.holder
      /\ shown.cvc = Itoa[w.cvc] /\ shown.end = w.end
  BY CardShown
<1> HIDE DEF shown
<1>7. /\ Agree("system", in.system, shown.system) /\ Agree("number", in.number, shown.number)
      /\ Agree("holder", in.holder, shown.holder)
  BY <1>4, <1>5, <1>6 DEF Agree
<1>8. Agree("cvc", in.cvc, shown.cvc)
  <2>1. w.cvc \in DOMAIN Itoa
    BY DEF ContentsOf
  <2>2. Numeral[shown.cvc] = w.cvc
    BY <1>6, <2>1, Numerals
  <2> QED BY <1>4, <1>5, <2>2 DEF Agree
<1>9. Agree("end", in.end, shown.end)
  <2>1. in.end \in Seq(Nat)
    BY DEF InputsOf
  <2> QED BY <1>4, <1>5, <1>6, <2>1, EndAgrees
<1>10. ~edit => /\ Agree("title", in.title, shown.title)
                /\ Blank(in.desc) \/ Agree("desc", in.desc, shown.desc)
  BY <1>4, <1>5, <1>6 DEF Agree, Writes, Blank
<1> QED BY <1>7, <1>8, <1>9, <1>10 DEF ShowsIt, Fields, shown

(* What was typed is what is shown when the item is opened again: SavedIsShown of
   Editor. *)
THEOREM SavesShown == Spec => SavedIsShown
<1> DEFINE A ==
      Saved /\ form.kind # "binary" =>
        LET id == IF form.id = None THEN <<form.kind, Trimmed[form.in.title]>> ELSE form.id
            shown == Shown(id, stored'[id]) IN
        KindOf(id) = form.kind =>
            \A field \in Fields(form.kind) :
                \/ form.id # None /\ field \in {"title", "desc"}
                \/ field = "desc" /\ form.kind = "card" /\ Blank(form.in.desc)
                \/ Agree(field, form.in[field], shown[field])
<1>1. Inv /\ [Next]_vars => A
  <2> DEFINE id == IF form.id = None THEN <<form.kind, Trimmed[form.in.title]>> ELSE form.id
             d == DraftOf(form.kind, form.in)
             edit == form.id # None
             w == stored'[id]
  <2> SUFFICES ASSUME Inv, [Next]_vars, Saved, form.kind # "binary", KindOf(id) = form.kind
               PROVE  ShowsIt(id, form.kind, form.in, w, edit)
    BY DEF ShowsIt
  <2>1. /\ d \in Drafts /\ CleanDraft(d)
        /\ \/ form.id = None /\ stored' \in Created(d)
           \/ form.id # None /\ form.id \in Ids /\ stored' \in Updated(form.id, d)
    BY SavedIs
  <2>2. /\ form.kind \in Kinds /\ form.in \in InputsOf(form.kind)
        /\ d.type = form.kind /\ form.kind \in Stored
    BY SavedIs, FormParts, DraftKind DEF Kinds, Stored
  <2>3. d.title = Trimmed[form.in.title]
    BY <2>2 DEF DraftOf, Draft, Stored
  <2>4. /\ id \in Ids /\ w \in ContentsOf(form.kind)
        /\ \E v \in Contents(form.kind, d) : Writes(id, form.in, v, w, edit)
    <3> HIDE DEF d
    <3>1. CASE form.id = None
      <4>1. /\ stored' \in Created(d) /\ id = <<d.type, d.title>>
        BY <2>1, <2>2, <2>3, <3>1
      <4>2. /\ id \in Ids
            /\ \E v \in Contents(d.type, d) : stored' = [stored EXCEPT ![id] = v]
        BY <2>1, <2>2, <4>1, CreatedIs DEF Inv
      <4> HIDE DEF id
      <4>3. PICK v \in Contents(d.type, d) : stored' = [stored EXCEPT ![id] = v]
        BY <4>2
      <4>4. w = v
        BY <4>2, <4>3 DEF Inv, StoredOK
      <4>5. v \in ContentsOf(form.kind)
        BY <2>1, <2>2, ContentsType
      <4>6. NameOf(id) = Trimmed[form.in.title]
        BY <2>3, <4>1 DEF NameOf
      <4>7. Writes(id, form.in, v, w, edit)
        BY <3>1, <4>4, <4>6 DEF Writes
      <4> QED BY <2>2, <4>2, <4>4, <4>5, <4>7
    <3>2. CASE form.id # None
      <4>1. id = form.id
        BY <3>2
      <4>2. id \in Ids /\ stored' \in Updated(id, d)
        BY <2>1, <3>2
      <4> HIDE DEF id
      <4>3. PICK v \in Contents(KindOf(id), d) : w = [v EXCEPT !.desc = stored[id].desc]
        BY <2>1, <4>2, UpdatedIs DEF Inv
      <4>4. w \in ContentsOf(KindOf(id)) /\ w.desc = stored[id].desc
        BY <2>1, <4>2, UpdatedIs DEF Inv
      <4>5. Writes(id, form.in, v, w, edit)
        BY <3>2, <4>3, <4>4 DEF Writes
      <4> QED BY <4>2, <4>3, <4>4, <4>5
    <3> QED BY <3>1, <3>2
  <2>5. edit \in BOOLEAN
    OBVIOUS
  <2>6. PICK v \in Contents(form.kind, d) : Writes(id, form.in, v, w, edit)
    BY <2>4
  <2> HIDE DEF id, w, edit
  <2>7. CASE form.kind = "text"
    BY <2>2, <2>4, <2>5, <2>6, <2>7, TextShown
  <2>8. CASE form.kind = "creds"
    BY <2>2, <2>4, <2>5, <2>6, <2>8, CredsShown
  <2>9. CASE form.kind = "card"
    BY <2>2, <2>4, <2>5, <2>6, <2>9, SavedCardShown
  <2> QED BY <2>2, <2>7, <2>8, <2>9 DEF Stored
<1>2. Inv /\ [Next]_vars => [A]_vars
  BY <1>1
<1> QED BY <1>2, SpecInv, PTL DEF Spec, SavedIsShown
=================================================================================
