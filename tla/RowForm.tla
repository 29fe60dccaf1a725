------------------------------ MODULE RowForm ------------------------------
(***************************************************************************)
(* The m2m fields of the row editor on an existing row (Data.tsx).  The    *)
(* form's value of an m2m column is undefined until the field's effect     *)
(* sets it from the links of the row, which are read into a cache that     *)
(* outlives the editor and that a save does not invalidate.  A save sends  *)
(* the values that are defined, and the server makes the links those.      *)
(***************************************************************************)
EXTENDS Browser, FiniteSets, FiniteSetsExt

CONSTANTS
  M2MCols,       \* the m2m columns: numbers, in the order of the form
  Targets,       \* rows that may be linked
  MaxForeign     \* bound: changes of the links by somebody else

ASSUME FormAssumption ==
  /\ M2MCols \subseteq Nat /\ IsFiniteSet(M2MCols) /\ MaxForeign \in Nat
  /\ \A L \in SUBSET Targets : L # Nothing

VARIABLES
  links,         \* server: the links of the row, by column
  foreign,       \* how often somebody else changed them
  linksCache,    \* page: the links as they were read last
  asked,         \* columns whose links are being read
  answers,       \* answers on their way
  editor,        \* page: the values of the open editor's fields
  saving,        \* the save in flight: the values it sends
  opening        \* history of this opening, and of the save: what each field
                 \* was last read to be, the targets the user toggled, and the
                 \* columns whose value another column's effect undid

formVars == <<links, foreign, linksCache, asked, answers, editor, saving, opening>>

Links == SUBSET Targets
FieldValues == [M2MCols -> Links \cup {Nothing}]
Opening == [base : FieldValues, toggled : [M2MCols -> Links], lost : SUBSET M2MCols]

\* Of the history a save keeps, by column, the links that were read, if it has to
\* leave alone some target of theirs.
SaveRequest == [values : FieldValues, base : FieldValues, keeps : [M2MCols -> Links],
                served : BOOLEAN]

None == [c \in M2MCols |-> Nothing]
NoLinks == [c \in M2MCols |-> {}]
Fresh == [base |-> None, toggled |-> NoLinks, lost |-> {}]

FormInit ==
  /\ links \in [M2MCols -> Links] /\ foreign = 0
  /\ linksCache = None /\ asked = {} /\ answers = None
  /\ editor = Nothing /\ saving = Nothing /\ opening = Fresh

\* What a field shows: undefined is shown as nothing selected.
Picked(values, c) == IF values[c] = Nothing THEN {} ELSE values[c]
-----------------------------------------------------------------------------
(* The fields.                                                             *)

\* Mutation: a value that is there already is left alone.
InitialiseOnce(values, o, data, S) ==
  LET unset == {c \in S : data[c] # Nothing /\ values[c] = Nothing}
  IN  /\ editor' = [c \in M2MCols |-> IF c \in unset THEN data[c] ELSE values[c]]
      /\ opening' = o

\* The effects of the columns S, run after one rendering: each sets the whole form
\* from the one that was rendered, so that only the last one's value remains.
Initialise(values, o, data, S) ==
  LET unlike == {c \in S : data[c] # Nothing /\ data[c] # Picked(values, c)}
  IN  IF unlike = {} THEN editor' = values /\ opening' = o
      ELSE LET last == Max(unlike)
           IN  /\ editor' = [values EXCEPT ![last] = data[last]]
               /\ opening' = [o EXCEPT !.lost = (@ \cup unlike) \ {last}]

\* The fields appear with what is cached; their links are read again, or the
\* reading under way is joined.
OpenEditor ==
  /\ editor = Nothing
  /\ Initialise(None, Fresh, linksCache, M2MCols)
  /\ asked' = asked \cup {c \in M2MCols : answers[c] = Nothing}
  /\ UNCHANGED <<links, foreign, linksCache, answers, saving>>

CloseEditor ==
  /\ editor # Nothing /\ editor' = Nothing /\ opening' = Fresh
  /\ UNCHANGED <<links, foreign, linksCache, asked, answers, saving>>

ServeLinks(c) ==
  /\ c \in asked /\ asked' = asked \ {c}
  /\ answers' = [answers EXCEPT ![c] = links[c]]
  /\ UNCHANGED <<links, foreign, linksCache, editor, saving, opening>>

LinksFail(c) ==
  /\ c \in asked /\ asked' = asked \ {c}
  /\ UNCHANGED <<links, foreign, linksCache, answers, editor, saving, opening>>

\* Answers that arrive before the next rendering; an effect runs for those that
\* differ from what was cached.
LinksArrive(S) ==
  /\ S # {} /\ \A c \in S : answers[c] # Nothing
  /\ linksCache' = [c \in M2MCols |-> IF c \in S THEN answers[c] ELSE linksCache[c]]
  /\ answers' = [c \in M2MCols |-> IF c \in S THEN Nothing ELSE answers[c]]
  /\ IF editor = Nothing THEN UNCHANGED <<editor, opening>>
     ELSE Initialise(editor,
            [opening EXCEPT !.base = [c \in M2MCols |-> IF c \in S THEN answers[c] ELSE @[c]]],
            linksCache', {c \in S : answers[c] # linksCache[c]})
  /\ UNCHANGED <<links, foreign, asked, saving>>

\* A chip's cross, or an entry of the picker.
Toggle(c, t) ==
  /\ editor # Nothing
  /\ editor' = [editor EXCEPT ![c] = SymDiff(Picked(editor, c), {t})]
  /\ opening' = [opening EXCEPT !.toggled[c] = @ \cup {t}]
  /\ UNCHANGED <<links, foreign, linksCache, asked, answers, saving>>
-----------------------------------------------------------------------------
(* Saving.                                                                 *)

\* The targets of a column that the user did not toggle, when its links were read.
Keeps(o, c) ==
  IF c \in o.lost \/ o.base[c] = Nothing THEN {} ELSE Targets \ o.toggled[c]

SaveRow ==
  /\ editor # Nothing /\ saving = Nothing
  /\ saving' =
       [values |-> editor, served |-> FALSE,
        keeps |-> [c \in M2MCols |-> Keeps(opening, c)],
        base |-> [c \in M2MCols |-> IF Keeps(opening, c) = {} THEN Nothing ELSE opening.base[c]]]
  /\ UNCHANGED <<links, foreign, linksCache, asked, answers, editor, opening>>

ServeSave ==
  /\ saving # Nothing /\ ~saving.served
  /\ links' = [c \in M2MCols |-> IF saving.values[c] = Nothing THEN links[c] ELSE saving.values[c]]
  /\ saving' = [values |-> None, base |-> None, keeps |-> NoLinks, served |-> TRUE]
  /\ UNCHANGED <<foreign, linksCache, asked, answers, editor, opening>>

\* onSuccess closes the editor, also one that was opened since.
SaveDone ==
  /\ saving # Nothing /\ saving.served /\ saving' = Nothing
  /\ editor' = Nothing /\ opening' = Fresh
  /\ UNCHANGED <<links, foreign, linksCache, asked, answers>>

\* The editor stays open with its values.
SaveRefused ==
  /\ saving # Nothing /\ ~saving.served /\ saving' = Nothing
  /\ UNCHANGED <<links, foreign, linksCache, asked, answers, editor, opening>>

ForeignChange(c, L) ==
  /\ foreign < MaxForeign /\ foreign' = foreign + 1
  /\ L # links[c] /\ links' = [links EXCEPT ![c] = L]
  /\ UNCHANGED <<linksCache, asked, answers, editor, saving, opening>>

FormNext ==
  \/ OpenEditor \/ CloseEditor
  \/ \E c \in M2MCols : ServeLinks(c) \/ LinksFail(c)
  \/ \E S \in SUBSET M2MCols : LinksArrive(S)
  \/ \E c \in M2MCols, t \in Targets : Toggle(c, t)
  \/ SaveRow \/ ServeSave \/ SaveDone \/ SaveRefused
  \/ \E c \in M2MCols, L \in Links : ForeignChange(c, L)

FormSpec == FormInit /\ [][FormNext]_formVars
-----------------------------------------------------------------------------
FormTypeOK ==
  /\ links \in [M2MCols -> Links] /\ foreign \in Nat /\ linksCache \in FieldValues
  /\ asked \subseteq M2MCols /\ answers \in FieldValues
  /\ \A c \in asked : answers[c] = Nothing
  /\ editor \in FieldValues \cup {Nothing} /\ saving \in SaveRequest \cup {Nothing} /\ opening \in Opening

\* A save changes no link the user did not toggle in this opening of the editor:
\* once a column's links arrived in it, unless another column's effect undid that, or
\* they are not the row's links any more.
UntoggledLinksStay ==
  [][ServeSave =>
       \A c \in M2MCols :
         saving.base[c] = links[c] =>
           SymDiff(links[c], links'[c]) \cap saving.keeps[c] = {}]_formVars
=============================================================================
