---------------------------- MODULE HookEditors ----------------------------
(***************************************************************************)
(* The editors of a definition's hooks and custom actions                  *)
(* (components/HooksEditor.tsx, ActionsEditor.tsx).  Actions have ids made *)
(* from a number that is free; the list is numbered anew after each change.*)
(* A hook's configuration is an input of its own that keeps its text until *)
(* the element goes away; elements are told apart by hook and place.  Text *)
(* stands for the configuration it parses to, if there is one.             *)
(***************************************************************************)
EXTENDS Browser, FiniteSets, Sequences, SequencesExt

CONSTANTS
  Hooks,         \* names of the registered hooks
  Configs,       \* configurations, and the texts that mean them
  NoConfig,      \* the empty one
  NoJson,        \* text that means none
  MaxEntries       \* bound: hooks of an event, actions of a table

ASSUME HookEditorsAssumption ==
  Hooks # {} /\ NoConfig \in Configs /\ NoJson \notin Configs /\ MaxEntries \in Nat

VARIABLES
  hookList,      \* the assignments of one event
  inputs,        \* the input at each place
  actions        \* the custom actions

hookVars == <<hookList, inputs, actions>>

Texts == Configs \cup {NoJson}
Assignment == [hook : Hooks, config : Configs, order : 1..MaxEntries]
Input == [hook : Hooks, text : Texts,
          flagged : BOOLEAN,     \* is it marked as invalid?
          meant : Configs,       \* history: the configuration it last meant
          handed : BOOLEAN]      \* history: was it another assignment's, of the same hook?
Action == [id : Nat \ {0}, order : 1..MaxEntries]

HooksInit == hookList = <<>> /\ inputs = <<>> /\ actions = <<>>
-----------------------------------------------------------------------------
(* Hooks of an event.                                                      *)

NewInput(a) == [hook |-> a.hook, text |-> a.config, flagged |-> FALSE, meant |-> a.config,
                handed |-> FALSE]

\* Mutation: inputs are told apart by their place alone.
RenderedByPlace(list) ==
  [i \in DOMAIN list |->
     IF i \in DOMAIN inputs THEN [inputs[i] EXCEPT !.hook = list[i].hook] ELSE NewInput(list[i])]

\* An input whose hook and place are those of an input that was there stays.
Rendered(list) ==
  [i \in DOMAIN list |->
     IF i \in DOMAIN inputs /\ inputs[i].hook = list[i].hook THEN inputs[i]
     ELSE NewInput(list[i])]

Numbered(list) == [i \in DOMAIN list |-> [list[i] EXCEPT !.order = i]]

SetEvent(list) ==
  /\ hookList' = Numbered(list) /\ inputs' = Rendered(list)
  /\ UNCHANGED actions

AddHook ==
  /\ Len(hookList) < MaxEntries
  /\ SetEvent(Append(hookList, [hook |-> CHOOSE h \in Hooks : TRUE, config |-> NoConfig,
                                order |-> Len(hookList) + 1]))

\* Another hook keeps the configuration.
SelectHook(i, h) ==
  /\ h # hookList[i].hook
  /\ SetEvent([hookList EXCEPT ![i].hook = h])

\* An input is left with the text that was typed, or with what it showed, and that is
\* stored.  An input that was marked and is now empty stays marked.
StoreText(i, text) ==
  /\ text \in Configs
  /\ hookList' = Numbered([hookList EXCEPT ![i].config = text])
  /\ inputs' = [inputs EXCEPT ![i].text = text, ![i].meant = text, ![i].handed = FALSE,
                              ![i].flagged = @ /\ text = NoConfig]
  /\ UNCHANGED actions

\* Text that is no JSON stays in the input, which is marked; the hook keeps what it has.
RejectText(i) ==
  /\ inputs' = [inputs EXCEPT ![i].text = NoJson, ![i].flagged = TRUE]
  /\ UNCHANGED <<hookList, actions>>

\* The assignments behind the removed one move up; where the next one is of the same
\* hook it gets the input of the one that was there.
RemoveHook(i) ==
  LET rest == RemoveAt(hookList, i)
      moved(j) == j >= i /\ rest[j].hook = hookList[j].hook IN
  /\ hookList' = Numbered(rest)
  /\ inputs' = [j \in DOMAIN rest |-> [Rendered(rest)[j] EXCEPT !.handed = @ \/ moved(j)]]
  /\ UNCHANGED actions
-----------------------------------------------------------------------------
(* Custom actions.  Of an action its id and its place are kept.            *)

SetCustom(list) ==
  /\ actions' = Numbered(list)
  /\ UNCHANGED <<hookList, inputs>>

IdTaken(n) == \E i \in DOMAIN actions : actions[i].id = n

NewAction(n) ==
  /\ Len(actions) < MaxEntries
  /\ SetCustom(Append(actions, [id |-> n, order |-> Len(actions) + 1]))

\* Mutation: the number of the actions is taken, whether it is free or not.
AddActionAt == NewAction(Len(actions) + 1)

\* The first number from the length of the list on that is free.
AddAction ==
  \E n \in Len(actions) + 1 .. 2 * Len(actions) + 1 :
    /\ ~IdTaken(n) /\ \A k \in Len(actions) + 1 .. n - 1 : IdTaken(k)
    /\ NewAction(n)

MoveAction(i, j) ==
  /\ j \in {i - 1, i + 1} \cap DOMAIN actions
  /\ SetCustom([actions EXCEPT ![i] = actions[j], ![j] = actions[i]])

RemoveAction(i) == SetCustom(RemoveAt(actions, i))

HooksNext ==
  \/ AddHook \/ AddAction
  \/ \E i \in DOMAIN hookList :
       \/ RemoveHook(i)
       \/ \E h \in Hooks : SelectHook(i, h)
       \/ RejectText(i) \/ \E text \in Configs : StoreText(i, text)
  \/ \E i \in DOMAIN actions : RemoveAction(i) \/ \E j \in DOMAIN actions : MoveAction(i, j)

HooksSpec == HooksInit /\ [][HooksNext]_hookVars
-----------------------------------------------------------------------------
HooksTypeOK ==
  /\ hookList \in Seq(Assignment) /\ inputs \in Seq(Input) /\ Len(inputs) = Len(hookList)
  /\ \A i \in DOMAIN hookList : /\ hookList[i].order = i
                                /\ inputs[i].hook = hookList[i].hook
  /\ actions \in Seq(Action) /\ \A i \in DOMAIN actions : actions[i].order = i

\* No two actions of a table have the same id, by which a row's button asks for its
\* action, whatever was added, moved and removed before.
ActionIdsUnique ==
  \A i, j \in DOMAIN actions : actions[i].id = actions[j].id => i = j

\* What a hook has stored is what its input shows, so that leaving the input changes
\* nothing; an input that shows text that is no JSON is marked, and the hook has what
\* the input meant before.  Until it is left an input that a removal handed from one
\* assignment to another of the same hook is exempt.
InputsTellTruth ==
  \A i \in DOMAIN hookList : ~inputs[i].handed =>
    /\ hookList[i].config = inputs[i].meant
    /\ inputs[i].text = inputs[i].meant \/ (inputs[i].text = NoJson /\ inputs[i].flagged)
=============================================================================
