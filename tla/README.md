# Flago in TLA+

This directory holds a verification development for Flago, a Feishu assistant
(Python, asyncio, threads, SQLite): TLA+ modules translated from `src/src/flago`,
TLC configurations that check them on small instances, and theorems that the
TLAPS proof system checks for every instance. Paths below are relative to
`src/src/flago` unless they start with `src/`.

    tlc -workers 2 -config WritebackRace.cfg MCWriteback     # one run
    tlapm WritebackProofs.tla                                # one proof module

`PROJECT.json` lists the runs, the mutants that show that each property can fail,
the lines of code behind every definition, the hazards and the theorems.

## 1. The system

`flago serve` is one process with two event loops on one SQLite database (WAL).
The HTTP server (uvicorn) serves OAuth callbacks, card callbacks and the admin
page. The long-connection worker runs in a daemon thread with a loop of its own:
messages and menu events become tasks of that loop, card clicks are answered by a
blocking callback that runs the service in a further thread. Every method of
`SQLiteStore` opens a connection, executes one or two statements and commits; there
is no transaction across methods and no lock in the process. Almost every hard
behaviour of the program comes from this: what a coroutine has read may have changed
by the time it writes.

| Component | State | Operations | Works with | Hard behaviour | What makes it correct |
|---|---|---|---|---|---|
| Writeback service (`writeback/service.py`, `cards.py`, tables `pending_actions`, `writeback_executions`, `audit_events`) | status and columns of actions, execution rows, audit rows | confirm, cancel, record, undo metadata | router, worker, HTTP callback, executor | check and update of a status are separate; a lost answer; a stop in the middle | nothing is written that its owner did not confirm; records do not claim more than happened; an undo undoes once |
| Executor (`writeback/executor.py`) | none | one to several calls to Feishu | open API | several calls without a rollback, stale snapshot | an undo puts back what the write replaced, as far as it was read |
| Card ingress (`feishu/worker.py`, `server/app.py`, `card_callback.py`, `card_event.py`, `cli.py`) | threads, futures, idempotency keys | click, acknowledgement timeout, HTTP delivery, restart | writeback, router | blocking callback, background threads, redelivery, restarts | an event is served once; the toast is true; the loop never stands still for good |
| Authorization (`feishu/oauth.py`, `server/app.py`, `server/admin.py`, `feishu/openapi.py`, tables `oauth_states`, `oauth_tokens`, `app_settings`) | links, tokens, owner, sessions | link, callbacks, refresh, status, login | router, open API, Feishu's token endpoint | two callbacks with one link, crossing refreshes, withdrawn grants, two first logins | a link lets one in; a refresh loses nothing; calls get the token they are entitled to; the admin page has one owner |
| Message router (`feishu/router.py`, `message.py`, `client.py`, `menu.py`) | idempotency keys, preferences | commands, menu entries, questions | everything | keys stored before the work, commands before the key | a message is answered once; a command is carried out once |
| Chat context and memory (`feishu/context.py`, router, tables `context_message_cache`, `conversation_summaries`, `memory_items`, `memory_preferences`) | cached messages, rolling summary, items | load, summarize, save, delete, disable | router, Feishu's history, admin page | enabled-check before the save, read-modify-write of the summary, cleared items come back from the summary | no chat stores while memory is off; what left the window is in the summary |
| Agent orchestrator (`agent/orchestrator.py`, `tools.py`, `protocols.py`, `context_builder.py`) | results of this request | decide, repair, execute tools, draft | model router, reader, writeback | bound on steps, one repair, tool timeout, several drafts | it stops; a draft becomes a proposal only if writing is enabled |
| Assistant pipeline (`agent/assistant.py`, `search_planner.py`) | none | recognise the intent, search, read, answer, draft | model router, reader | ambiguity of text, numbers in Chinese, records that go through a printed text | the range and resource that are named are taken, nothing else is overwritten |
| Model registry and router (`model_providers/registry.py`, `types.py`, `catalog.py`) | providers, semaphores | resolve, generate | providers | concurrency limit, capabilities | a request goes to a provider that can serve it |
| Model providers (`openai_compatible.py`, `claude.py`, `gemini/provider.py`, `prompt.py`, `echo.py`) | none | translate, one HTTP call | registry | formats | translation |
| Resource reader (`resources/reader.py`, `parser.py`), attachments (`attachments.py`) | none | page, extract, clip | open API | paging and size limits | nothing is read beyond the limits |
| Open API client (`feishu/openapi.py`) | tenant token | one method per endpoint | authorization | which token, cache of the tenant token | the user's token where it is required |
| Admin page (`server/admin.py`, `config/settings.py`) | settings tables, environment file | login, forms, service control | everything | a form writes several tables and a file in turn | all or nothing; only the owner |
| Local service (`local_service.py`, `src/scripts/restart_server.py`) | processes, port | start, stop, restart, status | operating system | looks and acts at different moments | one server per workspace |
| Media workflows, packaging, logging, command line | - | - | - | none | - |

The hazards behind the fifth column, each at its line and with the properties that
would show it, are in `PROJECT.json` under `hazards`.

## 2. Modules

| Module | What it is |
|---|---|
| `Writeback` | the pipeline from a proposal to an execution and its undo |
| `WritebackLifecycle` | what a pending action promises, in terms of its status and its writes only |
| `WritebackInv` | inductive invariants of `Writeback` |
| `WritebackProofs` | theorems about them, and the refinement |
| `WriteExecution` | the calls of executions and undos, on a document, a sheet and a table that others edit |
| `WriteExecutionProofs` | its inductive invariant and theorems |
| `CardIngress` | `Writeback` composed with the process that takes the clicks |
| `CardIngressInv`, `CardIngressProofs` | its inductive invariant and theorems |
| `Authorization` | links, tokens and the owner of the admin page |
| `AuthorizationInv`, `AuthorizationProofs` | its inductive invariant and theorems |
| `ChatMemory` | the context of a chat, its summary and the memory of a user |
| `ChatMemoryInv`, `ChatMemoryProofs` | its inductive invariant and theorems |
| `MessageRouter` | from a delivered event to an answer, with the switches and the writes an answer proposes |
| `MessageRouterInv`, `MessageRouterProofs` | its inductive invariant and theorems |
| `AgentLoop` | one request of the agent mode: decisions, tools, drafts |
| `AgentLoopProofs` | its inductive invariant and theorems |
| `SheetPositions`, `ModelText`, `BitableTargets` | pure: cells and pages in words, content in the lines of an answer, records and fields of a table |
| `ResourceReader` | pure: what searching and reading return, from what Feishu holds and refuses |
| `WritebackPlanner` | pure: from a request, what was read and an answer to the proposed writes |
| `AssistantTurn` | one request of the default assistant, composed of the five above |
| `AssistantProofs` | its inductive invariant and theorems |
| `MCWriteback`, `MCWriteExecution`, `MCCardIngress`, `MCAuthorization`, `MCChatMemory`, `MCMessageRouter`, `MCAgentLoop`, `MCAssistantTurn` | instances for TLC |

### Writeback

A *session* is one coroutine. `pc[s]` names its next step, a step is one store call
or one call to Feishu with the plain code up to the next `await`, and `req[s]` holds
its arguments. `status` and `details` are the columns of `pending_actions`, `rows`
is `writeback_executions`, `audit` the kinds of `audit_events` of an action. `cards`
(which cards have reached a chat) and `writes` (how often Feishu carried an action
out) are the outside world.

- `Propose`, `InsertUndo`, `AuditCreated`, `SendCard`: `_send_assistant_response`,
  `_execute_low_risk_writebacks` and `_latest_undo_response` of the router.
  `oversize` stands for a payload over the limits of `_validate_writeback_limits`.
- `ReadForConfirm` ... `AuditReverted`: `confirm()`, from the read at
  `service.py:29` to the last audit row. `Execute` is the executor: it takes effect
  and answers, takes effect and the answer is lost, or has no effect.
- `ReadForCancel`, `SetCanceled`, `FinalEvent`: `cancel()`.
- `UndoMetadata`, `LatestReversible`: which executions `/undo` finds.
- `Abort`: an exception of a store call, or the death of the thread, at any step.
- `Tick`: the clock, up to `MaxTime`.

The UPDATE of a status has no condition on the old one, and neither has `SetStatus`.

### WriteExecution

A *job* is a confirmed action; a step is one call to Feishu by the executor, which may
be refused (nothing changed) or carried out with its answer lost. The document is a
sequence of blocks, the sheet a function of cells, the table one of records. What a cell
holds and what a reading shows of it are two things: `openapi.py:131` asks for texts, so
`Shown` renders every cell, and a snapshot consists of rendered texts. A rendered text is
its own rendering; a formula is not.

- `AppendDocText`, `CreateDoc` and `FillDoc`, `ReadSheetRange` and `WriteSheetRange`,
  `CreateBitableRecord`, `UpdateBitableRecord`: the branches of `execute` and the
  methods of `openapi.py` they call. `Snapshot` is `_sheet_snapshot`: a full rectangle
  around rows that may be ragged; `Overlay` is what a range write does.
- `Undoable`, `UndoCalls`: `_undo_metadata`, which writes can be undone and by which
  calls, in which order. `DeleteDocBlock`, `DeleteBitableRecord`, `RestoreSheetRange`
  are the calls of an undo, which may fail in the middle and be asked for again.
- `SomebodyInserts`, `SomebodyRemoves`, `SomebodyWrites`: the other editors.

### CardIngress

It extends `Writeback` and says who may take its steps when. `loop` is the session
that the worker's loop waits for, `channel` says how a session came: as a task of
the loop (`Message`), by a click the loop waits for (`WorkerClick`), as a thread left
behind by the acknowledgement timeout (`AckTimeout`), or over HTTP (`Deliver`,
`Remember`). `keys` are the idempotency keys; a key that is stored before the service
is called survives a `Restart`, the sessions do not. `told` is what the toasts said,
`overlapped` are the actions for which some request was not waited for.

### Authorization

A *request* is a coroutine of the router (`Ask`), of an API call (`Call`), of an HTTP
handler (`StartLink`, `AdminLogin`, `Callback`). `ReadState` and `ConsumeState` are
the SELECT and the UPDATE of `consume_oauth_state`; `ReadToken`, `Refresh` and
`SaveRefreshed` are `get_valid_access_token`; `ReadStatus` and `Reread` are
`authorization_status`; `ReadOwner`, `SetOwner` and `SaveToken` are the end of a
login. A token is its expiry, whether it has a refresh token, and its scopes; an
answer of Feishu may leave any of them out, and `Merge` fills in what the code fills
in. Feishu itself is the choice of an answer in `Refresh` and `Exchange` and the
action `Withdraw`. `latest`, `overtaken` and `uses` are history variables: they count
and compare, and no action reads them, apart from `grant` in a token, which says
which authorization the token descends from.

### ChatMemory

A *session* is a task of the worker's loop (a question or a memory command), a click
on the save card, or a submission of the admin form. `req[s]` holds its local
variables. A text is the set of messages whose contents it holds, a summary their
sequence.

- `Deliver`, `RememberKey`, `Ask`: `handle_message`, from the event to
  `assistant.handle`; `RememberKey` is the INSERT that a second delivery fails.
- `Prune` ... `SaveSummaryItem`: `ChatContextLoader.load`, one action per store call
  and one for Feishu's list of messages, which may be refused. `FreshlyCached` is
  `_should_refresh_cache`, `Listed` the SELECT with its order and limit, `List` the
  window, `Rolled` and `Extended` are `_build_conversation_summary` and
  `_dedupe_keep_last`.
- `MayUse`, `ListItems`: the look at the switch and the items that go into the prompt.
- `MayOffer`, `SendCard`, `ClickSave`, `MaySave`, `SaveItem`: a statement to be
  remembered, its card, and the commands that store at once. While a click is being
  carried out the worker's loop does nothing else (`Blocked`); the admin page goes on.
- `SetEnabled`, `Forget`, `ClickDelete`: commands of one store call. `Refuse` is the
  answer to a statement or a memory command in a group: nothing is done.
- `SubmitForm` ... `FormSave`: the part of the admin form that concerns memory. It sets
  the switch, clears and stores one after the other and does not look at the switch.
- `Send` and `History` are Feishu.

`asked` and `seenOn` are history variables that no action reads.

### MessageRouter

A *task* is one coroutine on the worker's loop. `Deliver` is an event that arrives, for
the first time or again; `Handler` is the order in which `handle_message` and
`handle_bot_menu` try the commands; `RememberKey` is the INSERT of the key, which
comes after the commands of a message and before those of a menu.

- `SetAuto`, `SetPersona`, `ClearProfile`, `SetModel`, `StatusConversation`,
  `StatusUser`: the preferences, one store call each.
- `UserModel`, `ConversationModel`, `Download`, `ReadName`, `ReadProfile`, `Ask`: the way
  of a question. What the assistant proposes is any member of `Responses`.
- `Mode` (`_effective_writeback_confirmation_mode`), `Lookup`
  (`find_recent_matching_action`), `Save`, `SaveDirect`, `Confirm`, `Execute`: what
  becomes of the proposals, card or direct. A `large` proposal is beyond the limits of
  `_validate_writeback_limits`: its confirmation is refused and its row stays pending.
- `SendAnswer`: `FeishuClient`'s sending with its attempts; `Click`, `FinishClick`, `Age`:
  cards clicked meanwhile, and the window of time within which a repetition counts.

`wished`, `resolved`, `before`, `lost` and `done` are history variables.

### AgentLoop

`Ask` and `Repair` are a decision of the model, which is arbitrary; `RunTool` is
`ToolRegistry.execute` with its gates (`Allowed`), `NextStep` the bound on decisions,
`Raise` an exception. `Normalized` is `_normalize_writeback_draft`, `Complete` and
`Supported` the checks after it, `FollowupContent` the earlier message that "write it at the
end" refers to. A message is who wrote it and what kind of thing it says. A text that is
written has a `source`: nobody, the model (which sees the whole conversation and may copy
any message of it, `context_builder.py:48`) or the code. `AgentAssumption` says which drafts
an instance may hold: no draft comes with a text of the code's, and a place its preview
names counts as stated, which `_write_position` sees to by looking into the preview as well.

### The assistant

`AssistantTurn` runs `TakeLinks` or `PlanSearch`, `SearchQuery` and `SearchFails`, `Read`,
`Generate`; all that these compute is in the pure modules. A text of the user, and an
answer of the model, is a record of what the code's regular expressions find in it (a
link, a place, a quotation, a label), with a field that says what was *meant* where a
property compares the two. The code does not see this field. `MeansAssumption` says what
it may hold where the code sees a place (`IsSeen`): the numbers whose numerals, in digits or
in the usual Chinese form up to 99,999,999 (`Numeral`), the words are; or zero where the
words are no such numeral (一百五 is written for 150 by some, and read as 105). Where it
sees none, any cell may be meant, and instances have such requests: a cell named `behind`
the first link (`assistant.py:2555`), in words no pattern knows, or in the earlier message
that a message completes (`assistant.py:2460`). Of these the property claims nothing, and
the code writes where the link, the plan or the answer says, else to the next free row.
`MeansAssumption` also says that a link names no page of a document, since `parser.py` finds
none in one.
Numerals are sequences of characters, since their conversion
is where an off-by-one would be (`ParseChineseInteger`, `ColumnNumberToLetters`); an
answer is a sequence of kinds of lines, since cutting its content out goes line by line
(`GeneratedContent`). `Search` and `ReadResource` take a world (what Feishu holds and
which of its calls are refused) and give what `reader.py` gives, fallbacks included.
The records of a table reach the planner as the code passes them on, through a printed text:
`Line` joins the cells of a record with a separator that is not escaped (`reader.py:1446`),
`LineLeft` cuts the text where the limit of characters ends it (`reader.py:565`), and
`RecordFromLine` splits what is left and takes the last statement of each name, the id
included (`assistant.py:3064`). A cell is therefore what stands before its first separator
and the pieces behind it (`CellTextType`). Three things are assumed of this text: a cell
holds no other line break than the one the reader replaces, a field's name holds no separator
and no "=", and the list of fields stands before any cut.
An answer has its `prose`, which is all of it, what is `left` without its plans, and `kept`,
whether the plans are left in it: `_remove_model_writeback_plan_blocks` does not find a block
that is followed by text or fenced in another way (`assistant.py:2009`), and the corrections
then still read its words.
`Apply` is `WritebackPlanner.apply`: plans of the model (`PlanProposal`) or inference from
the request (`InferWriteback`), then the corrections in the order of the code
(`Normalize...`), each with its effect on the preview.

### Abstractions

In `ChatMemory` a line of a summary is identified with the message it was made from;
the assistant's own lines in a chat, and the budget that clips memories on their way
into a prompt, are left out; the private conversation of a user goes by his name;
everything a user tells explicitly is kept under one key. `Abort` stands for an
exception and for a stop of the process, which loses the sessions and keeps the
tables.

Names, texts, URLs, codes and payloads are model values, records of what the code
finds in them, or are left out. Time is a
number of ticks. The order of rows that carry the same timestamp is not modelled.
Group conversations differ from private ones only in what the router does before it
comes to these components. A read of a table and the commit of a single statement
are atomic, as in SQLite.

## 3. Runs

The longest takes about two minutes on two workers.

| Run | Instance | Shows |
|---|---|---|
| `writeback_race` | 2 users, 1 action, 2 sessions, 2 instants, fair | What survives every race: records only for what happened (`ReportedMeansWritten`), at most as many writes as requests in flight (`WritesBoundedByRace`), only the owner's requests decide (`OnlyOwnerDecides`); no action stays confirmed (`ConfirmedSettles`) and every acknowledged write gets its row (`SuccessIsRecorded`) |
| `writeback_serial` | 2 users, 2 actions, 3 types, 1 session, 3 instants | With one request at a time the pipeline implements `WritebackLifecycle` (`LifecycleSpec`), the status tells what was written (`StatusTellsTheTruth`), a row counts as reverted only through an undo that was written (`RevertedMeansUndone`) |
| `write_execution` | batches of 2 or 3 of 7 jobs, a 2 x 2 sheet with a formula, 2 foreign edits, 2 attempts of an undo | An undo leaves an opening of the text or nothing (`UndoLeavesAnOpening`), never touches what others put into the document (`OthersBlocksSurvive`), and gives every cell the write wrote the text it showed before, ragged rows included (`UndoRestoresWhatWasShown`): a formula comes back as the text it showed, and what others wrote there since is lost |
| `card_ingress` | 1 user, 1 action, 2 sessions, 1 HTTP event, 2 instants | Requests the loop waits for have one outcome (`OneOutcome`), toasts are true (`ToastsAreBacked`), the loop goes on (`LoopGoesOn`) |
| `authorization` | 2 users, 1 link, 2 requests, 1 scope, 2 instants | `LinkSettles`, `OwnerSettles`, `LatestGrantStands`, `RefreshTokenStays` |
| `chat_memory` | 1 user, 1 group, 2 messages, 2 sessions, 2 instants; a window of one message, a summary of two lines | `NothingCrosses`, `OffMeansOff`, `LinesAreKept` |
| `message_router` | 1 user, 1 group, 2 events, 2 deliveries, 2 tasks, 1 provider, 2 rows, 2 attempts, 4 deployments | A key stands for exactly one request (`KeysAreAccounted`), direct writes are wanted (`DirectIsWanted`), repetitions are noticed (`RepeatsAreNoticed`), the model is a preference in force (`AskedAsPreferred`), a row nobody can decide belongs to a request that died, at most one direct write each, or was too large (`NoOrphans`) |
| `agent_loop` | 3 decisions, every pair of an order and a later message, every draft of an append alone (its text the model's own or copied from any message) and some in pairs, fair | Nothing personal reaches a group (`GroupSeesNothingPersonal`), what reaches a card is complete and shows what is written (`ProposalsAreSound`), the code takes its text from nobody else (`WordsAreTheSenders`), the request ends (`RequestEnds`) |
| `assistant` | 17,726 requests in eight families | Answers rest on what was read (`AnswersAreGrounded`), previews say what is written (`PreviewsFollow`), places the code sees and quotations are followed (`WordsAreFollowed`), nothing that was not told is overwritten (`NothingElseIsOverwritten`), nothing is proposed unasked (`WritesAreAskedFor`) |
| `writeback_double_confirm` | 1 action, 2 sessions | violated: two confirms in flight both write |
| `writeback_double_undo` | 3 actions, 1 session | violated: two `/undo` cards of one execution both write |
| `agent_memory_off` | as `agent_loop` | violated: `list_memory` puts memories into a prompt while memory is off |

Why these bounds are enough. The races here are between a read and a write of one
row, so two requests for one row show each of them. Undo needs two actions (the second
undoes the first) and three to have two undos. Two instants make a card or a link
expire between two steps; `MaxTime` is the only bound on a counter there, the number of
writes, uses and authorizations is bounded by the sessions and keys of an instance.
One scope is enough to have a token with and without it, one link to be consumed
twice, two users to have a stranger.

In `chat_memory` two sessions are enough for two readings of one summary to cross and
for a switch to fall between a look and a store; two messages with a window of one make
a summary of one line grow, a summary of two lines is full with both; a private chat
and a group are the two conversations between which something could cross.

In `message_router` two tasks let one event be delivered twice at once, or a command
turn a switch while a question is at work; two rows (`MaxActions`) hold an answer with
two proposals, or a write and its repetition; `MaxDeliveries` bounds the deliveries,
`Attempts` is 2 where the code has 3, which shows both a repeated sending and giving up.
In `write_execution` texts of two blocks can be half undone, the two sheet writes
overlap in a cell and one of them is ragged; two foreign edits reach a place before
and after one call. In `agent_loop` three decisions are a first, a middle and a last
one.

The families of `assistant` vary one part of the code each and keep the others plain:
searching (three indexes of what is found, links, two speakers), cells (rows 1 to 21 and
around the powers of ten, columns 1 to 28 and around the carries at 52 and 702, in digits
and in numerals, in front of a link, behind it and unseen), rows to append (sheets that are
empty, full, longer and wider than what is read), pages (1 to 99, 100, 120), answers of up
to four lines, documents in one message or two, tables (rows, values, ids, fields named by
either side, cells with a separator and another id or value behind it, texts cut in the
middle of a record), and views. The limits of the code (200 rows, 26 columns, 50 numbered
records, 5 redirects) are scaled down (`MaxSheetRows` 8, `MaxSheetColumns` 3, `MaxIndexed`
3, `MaxWebRedirects` 1) so that instances beyond them stay small.

The theorems do not depend on the bounds. `CHECK_DEADLOCK FALSE` is given where the
system really stops: `writeback_race` (both sessions may stop before an insert for which
the instance has no key left), `message_router` and `write_execution` (all deliveries and
attempts are used up), `agent_loop` and `assistant` (one request, which ends).

### Findings

The violated properties are statements of the repository's own documents, texts and
tests:

1. `README.md:253` promises idempotence of writebacks, `tests/test_writeback.py:51`
   states it of consecutive confirms; `service.py:34` checks and `service.py:67`
   updates in two transactions (`writeback_double_confirm`).
2. `README.md:253` says that a writeback can be undone only once; `router.py:1294`
   looks at `reverted_at` when the card is made, not when it is confirmed
   (`writeback_double_undo`).
3. `router.py:850` tells who switches memory off that no memory will enter the model's
   context; `tools.py:436` lists the memories without asking (`agent_memory_off`).

Other disagreements between documents and code that the modules show, without a run of
their own:

- `README.md:148` promises a one-time link; `sqlite.py:217` looks and `sqlite.py:219`
  consumes in two statements, so two callbacks at once are both let in.
- `docs/user-privacy-operations.md:399` names a withdrawn grant as a reason to authorize
  again; `router.py:1265` refreshes the old token first, and a refused refresh ends the
  request without a link.
- `docs/user-privacy-operations.md:376` says that a confirmed deletion leaves the memory
  empty; `context.py:100` extends the rolling summary that was not deleted and
  `context.py:136` stores it as a memory again.
- `README.md:251` lists appends to documents as not safely undoable; `service.py:253`
  records an undo for them.
- `README.md:236` says that the status shows the model in use; in a group it shows the
  user's own preference (`router.py:946`), while questions there use the conversation's.
- `README.md:250` says that the undo of a sheet write restores the old value;
  `openapi.py:131` reads the old value as a text (`ToString`, `FormattedString`), and the
  undo writes this text: a formula is gone, a number or a date is a text.
- `README.md:203` and `router.py:849` say that nothing is added while memory is off; the admin
  form stores what is in it after it has switched memory off itself (`admin.py:569`).

And behaviour that no document speaks of, which the properties name where they exempt it: of
a sheet longer than what is read the "next free row" is occupied, and of one that could not
be read it is A1 (`reader.py:448`); of a long table "the last row" is the last one numbered
(`reader.py:1425`), and a view that cannot be read is replaced by the default order
(`reader.py:536`); a cell that is named behind a link or in the message before is not seen,
and the write goes to the next free row (`assistant.py:2555`, `assistant.py:2460`); a
table's cell that holds "；" may give its record another value or another id, and an update
that goes by the value then hits it (`reader.py:1446`, `assistant.py:3064`), and so may the
end of a table's text where it is cut; a block of plans that is both fenced and marked is
read twice (`assistant.py:1774`); a code block that is not closed takes the assistant's own
note into the content (`assistant.py:2159`); requests worded 改为 or 修改 are not taken for
replacements and become appends (`assistant.py:2273`); a query that fails drops what earlier
ones found (`assistant.py:611`); of two prepared writes in one decision the second is
dropped (`orchestrator.py:193`); of a draft without a preview and without a word for its
place the card says "append" even if its index is that of the start (`tools.py:739`), and of
one whose preview names no place the card keeps the preview even if the text was taken from
an earlier message; a plan that is left in the answer still decides what the corrections
take the operation to be (`assistant.py:1265`); an exception in the middle of direct writes
leaves the row it was at undecided (`router.py:416`), and a direct write that is too large
stays pending for good.

What does hold of the same code is stated beside them: how many writes a race can
cause, when a link is spent for good (`LinkSettles`), that requests the worker's loop
waits for have one outcome (`OneOutcome`). `OffMeansOff` is the promise about the memory
switch that the router keeps: a message, a command or a click offers, uses or stores memory
only if it was on at some moment of that request; the admin form is exempt, since it stores
whatever the switch says. `LinesAreKept` names the two ways in which a rolling
summary loses lines: it is full (which lines are cut then is not said), or two requests
crossed. `WordsAreTheSenders` says that the code takes no words of another member; of a
copy made by the model it says only that it does not go before what the sender himself had
said to write. `UpdatesHitOneRecord` says from which lines of which view an updated record may
come, and promises the only holder of a value just for tables that are read back unchanged
(`ReadBackUnchanged`).

## 4. Fairness

`FairSpec` and `CardSpec` assume weak fairness of the steps that a session already
owes (`Proceed`, `Step`) and of nothing else; `FairSpec` of `AgentLoop` that of the request
it is about (`Advance`), whose calls of the model end by the client's timeout and whose
tools by `asyncio.wait_for`. An event loop resumes a coroutine whose
call has returned, and every call returns: SQLite gives up after its busy timeout,
`httpx` after 20 or 30 seconds. No user is assumed to click, Feishu is not assumed to
deliver again, time need not pass, and no stop or exception is assumed either way. In
`FairSpec` no session dies: the code has nothing that resumes the work of one that
did, and an action whose thread was killed while it was confirmed stays so
(`expire_due_actions` is never called). `CardSpec` does include exceptions and
restarts.

## 5. Proofs

Every theorem is checked by TLAPS down to its leaves and holds for any sets of users,
actions, sessions, events, links, requests, groups and messages. The assumptions are the
named ASSUMEs of the modules (null values differ from proper ones, times and limits are
naturals, scopes are scopes); TLC evaluates them in the runs.

**Writeback.** The safety properties are not inductive: that a write is decided
depends on what the session that writes has done before. `IInv` adds what a session
knows at each step (`SessionInv`: whoever is past the decision finds the action
decided, whoever is past the audit event finds the event, whoever has been answered
finds the write) and what the tables say of each other (`TableInv`: an undo belongs to
an action of the same owner that is no undo itself). From `Inductive` follow
`TypeCorrect`, `WritesAreDecided`, `ReportsAreTrue`, `UndoNeverChains`; the action
properties `DecisionsAreFinal` and `OwnerDecides` follow step by step;
`RevertedAreUndone` and `WritesAreBounded` have auxiliary invariants of their own, the
latter a counting argument: the writes of an action plus the sessions that may still
write it never exceed the number of sessions.

**One request at a time.** The last section of `WritebackProofs` assumes `Serial` (any two
sessions are equal). Then the session past the check is the only one that can have touched the
status (`Alone`), the action is written once and the status tells the truth
(`SerialWritesOnce`, `SerialStatusIsTrue`), and `SerialRefinement` shows that every
step maps to a step of `WritebackLifecycle` or to a stutter, under the mapping that
keeps `status` and `writes` and forgets the rest.

**CardIngress.** Its steps are steps of `Writeback`, aborts of one session, or a
restart that aborts all; `CardIInv` adds to `IInv` that the loop waits for a session
that came by a click, that an HTTP session holds a pressed event whose key is stored
once it works, and that all other sessions at work on an action that is not
`overlapped` have nothing left to decide. The result, `WaitedForHasOneOutcome`, is
what the blocking callback gives and `confirm()` alone does not. `ToastsTellTheTruth` rests
on the steps that answer a request and on `AuditIsKept`: no step of `Writeback` takes
back a row, an audit event or a write.

**WriteExecution.** That an undo leaves an opening of a text is not inductive: what a call
deletes depends on what the calls before it deleted. `IInv` says of each action where it
stands. Its blocks are in the document only once it was carried out (`Appended`); what it
returned is what its text became, or what its cells held (`ReturnOK`); an undo under way
has the blocks `1..n` of that text left, the last first, and no block beyond `n` is in
the document any more (`LeftOK`). Foreign edits keep it because they name other blocks and
because a document in which no block stands twice stays one (lemmas on removing, inserting
and joining, each stated once). From `ExecutionInvariant` follow `ExecutionTyped` and
`UndoLeavesOpenings`; `OthersAreLeftAlone` is the order of foreign blocks through every
kind of edit, `CellsAreRestored` the facts that the rectangle of a snapshot covers every
cell of its rows (`SnapshotCovers`), whatever their lengths, and that it holds what the
cells showed.

**Authorization.** `AuthIInv` says what a request carries at each step (`Carries`) and
that a token being refreshed is one of the subject's last authorization, or the
subject is marked as overtaken (`Descends`). From it: `LatestGrants`,
`AdminsAreCompared`, and the action properties `LinksSettle`, `OwnerIsFinal` and
`RefreshTokensStay`, which rest on two small lemmas: who can move whom
(`OneMoves`) and who writes which table (`WritersOfTables`).

**ChatMemory.** `ChatIInv` says what each session carries (`Honest`: its texts were
said in its own conversation, a step that concerns memory is one of a private chat),
what the tables hold (`StoreInv`), what it has seen of the switch (`Seen`) and that
the sessions that answer have distinct messages, each with a stored key and not yet
asked about (`OnceInv`). A step of a session keeps it if what the session carries
afterwards is honest and the tables stay sound (`Move`); the rest of the proof shows
that for each step, with lemmas on cutting, ordering and merging sequences of lines
(`LastLines`, `ArrangedLines`, `RolledLines`). From `Inductive` follow `TypeCorrect`,
`ConversationsStayApart`, `AskedAtMostOnce` and `OffIsOff`. `RollInv`, the part of the
invariant about a summary that was built and not yet stored, gives `SummariesKeepTheirLines`:
a merged summary that was not cut holds every line of the old one, because ordering and
merging lose none (`ArrangedHoldsAll`).

**AgentLoop.** The three properties speak of the cards and prompts of the end of a request;
`IInv` adds what leads there: a decision that runs tools has one left (`CallsInv`), a
request that goes on has a step left (`StepsInv`), and what the first preparation of a
decision left is sound while the other tools run (`PreparedInv`). That a normalized draft is
sound is a lemma about `Normalized` alone, by the cases of what the draft and the order
state, and so is where its text comes from (`ContentIsOwn`): what the code takes is the
sender's or nobody's, whatever the model copied. The earlier message a followup takes is the
last one of its kind, which exists because the positions are natural numbers. From
`AgentInductive` follow `AgentTypeCorrect`, `GroupsStayImpersonal`, `ProposedIsSound` and
`OthersWordsStayOut`.

**MessageRouter.** `IInv` follows a request from step to step. `TaskKnows`: from which
step on its event has arrived, is a question, is private. `Accounted`: past its key a
request is the only one of its event, and the key is there exactly if such a request is
at work, has answered or was lost; two tasks that are past the key therefore have
different events (`Apart`). `OnItsWay`: the row of a card that has not appeared belongs to a
task that is saving or sending it. `Wishes` and `Chooses` tie the history variables to the
tables: as long as the switch or the model has not been read, what the table holds now is
among what the request has noticed, which `SetAuto` and `SetModel` of other tasks keep.
`Remembers` and `Noticing`: what was executed before stays executed, the row a direct write
works on is the last one of its event (`IsOwn`, which `Apart` keeps true while others
insert and confirm theirs), and a repetition among the proposals already looked up is
counted. `UndecidedInv` says of a direct write that is neither decided nor refused for its
size that it is the one its request is at, or that this request is lost; it comes on top of
the others (`CoreInv`). Each step is first reduced to what it does to the fields of a request
(`ReadsFields`, `SaveFields`, `ConfirmFields`, `SendFields`), so that the proofs of the parts
of `IInv` do not depend on the wording of the actions. From `Inductive` follow all six
properties of the run, for any number of deliveries, rows, tasks and providers.

**AssistantTurn.** `TurnInv` says what each phase leaves behind. `SourceInv`: the
resources of a request come from its links as long as the audit records no executed
search, and from the searcher afterwards, where all have a readable type (`SearchFindsHits`).
`GroundsInv`: a search that found nothing leaves its status in the results until `Read`
stops at it, so whoever reaches the model after a search has something that could be read.
`OutcomeInv` says of every proposal that it is `Final`: of a known kind, on a resource of the
request (`Names`), under a preview that fits it (`Sound`), outside documents in which a
place was asked for (`Placed`), and with the text the user quoted (`Quotes`). What a proposal
shows and quotes is settled only by the last correction, so the proof follows it through
`Apply`: what a plan or an inference makes is sound (`PlanIsSound`, `InferenceIsSound`), each
correction keeps it sound or drops it (`ContentIsReplaced`, `BitableTargetIsSound`,
`CorrectionIsSound`), and what is displayed is final (`ProposalsAreFinal`). On the way stands
what the reader returns for every world and reference (`ReadResourceType`), which is why
results can be trusted to have the type of what they name. From `TurnInvariant` follow
`TurnTyped`, `AnswersStayGrounded`, `PreviewsStayTrue`, `NothingUnasked` and
`QuotationsAreWritten`, for any requests, plans, indexes, worlds and answers.

`WordsAreFollowed` has three parts, and `WordsFollowed` puts them together: the text the user
quoted (`QuotationsAreWritten`, from `TurnInv`), the text cut out of an answer, and the
places the code sees.

`AnswersAreCutOut` is the part about texts taken from the answer. Half of it is about
`GeneratedContent` alone: the runs of good lines it is made of are intervals that end where
a bad line follows (`RunIsInterval`), so what it returns for any sequence of lines is one
clean block below a label (`TextIsClean`). The other half follows the text through
plans, inference and corrections (`PlanHolds`, `InferenceHolds`, `CorrectionHolds`); the
correction reads it from the reply, which has the answer without its plans and a note under
it, and `NoteIsLeftOut`
shows that the note gets into the text only behind a code block the answer left open.

`NamedPlaceIsUsed` compares the places the code sees with the numbers the user means; cells it
does not see are outside it. That the last correction of a write to a sheet has the cell
which `SheetRangeFromText` finds is `NamedCellsAreWritten`. That this is the cell that is meant
is a fact about conversions alone: a numeral written for a number below 10^8 is read as
that number (`NumeralsAreRead`), the letters of any column are those of its number
(`LettersNumber`), and so a place in words is the cell that is meant (`PlaceIsNamed`) and a
page in words the page (`PageIsNamed`, where numerals above 99 have a character the code
does not look for, `OthersAreNoPages`). These conversions are a fold and a recursive function
over the naturals. They are shown to satisfy their equations, and to give the right number,
without an induction principle: if some input were wrong there would be a smallest one, and the
equation at that input leads to a smaller one. What the turn adds is `PagesInv`: a request
keeps its words, and the pages it asks of documents, before and after reading, are those of
`PdfPageHint` of these words, because neither links nor the searcher name any
(`LinksNameNoPage`) and reading keeps them (`PagesAreKept`).

Where proposals go is another invariant, `PlacesInv`, on top of the first. `Reads` says of
every result that it is a failure or what stands behind an address (`IsRead`, from
`ResourceIsRead`): of a sheet the row below the cells that were read, of a table the records
that are read back from the lines of its records in the order of the view. `Aims` says of a
proposal that its cell was stated or is the row below what was read (`Lands`), and that its
record was told by a plan, an answer, the user or by what was read back, and its field is one
of the table's or a plan's (`Picks`). Plans, inferences and corrections each keep it
(`PlanAims`, `InferenceAims`, `CorrectionAims`, `ProposalsAim`). Where an update goes is then a
question about what was read alone. Every value and id that is read back stands in the line of
its record, as a cell, behind a separator in one, or as what a cut left of it
(`LinesAreTold`, `IdsAreTold`); so the row or the value that was told leads to such a line in
the order of some view that was read (`ToldIsInOrder`, `ValueIsInOrder`), and if nothing was
split or cut, to the only record that holds the value (`UnchangedValues`). The row to append to
stands below every cell of that very sheet, because the first result of a sheet is also the
first with such a row and the sheets of a spreadsheet have ids of their own (`LandsFree`,
`AppendRowIsBelow`). From both follows `NothingOverwritten`.

The assumptions give the types of requests, worlds and indexes and of the limits, and
that sheet ids are distinct within a spreadsheet; `MeansAssumption` says which numbers
the words that are seen can mean (section 2); `LiteralsAssumption` says that the names
of types and kinds are strings, which the provers cannot see by themselves.

**Proved, not run.** `WriteIsDecided`, `DecisionIsFinal`, `NoUndoOfUndo`, `ServedOnce`,
`SessionsAreCompared`, `AskedOnce`, the type invariants of `CardIngress`, `Authorization`,
`ChatMemory` and `AgentLoop`, and the inductive invariants themselves are theorems for every
instance, so no run repeats them.

**Only model-checked.** Liveness (`ConfirmedSettles`, `SuccessIsRecorded`, `LoopGoesOn`,
`RequestEnds`) is out of the prover's reach, since it rests on fairness. Every safety
property of a passing run is proved. The library's induction theorems take an operator as a
parameter, which no backend instantiates, so no proof here cites one: where one would be
needed, the proof takes a minimal counterexample. The proofs about searching, reading and
choosing records keep clear of folds: what is filtered out of a sequence is written as the
items at a set of places (`Those`).

## 6. Not modelled, and why

- Regular expressions and the characters of texts, apart from numerals, columns and the
  separators in the printed records: the modules start from what is recognised.
- Extraction of text from documents, files and pages, rendering of tables beyond the lines
  of their records, prompts, the wording of answers and cards, HTML: no state.
- `message_send` and appends of ready-made block lists in the executor.
- Which user completes a link on Feishu's page and how that relates to the subject
  the token is stored for: the code takes the subject from the link.
- An answer of the token endpoint without an access token, and an audit event that
  fails after its effect: no later step takes notice of them.
- The tenant token's cache: a second fetch replaces one valid token by another. The
  paging of lists in `openapi.py`.
- Attachments, model providers, the model registry with its concurrency limit, the
  settings of the admin page, local service control, media workflows, packaging:
  `PROJECT.json` lists each with its reason.

## 7. Plan

1. `ModelRouter` (registry, preferences): resolution of provider and model, the
   concurrency limit as a semaphore with waiters.
2. `AdminConfig`: the form that writes several tables and the environment file in turn,
   with its validation last.
3. `LocalService`: processes and the port.
4. The composition of `WriteExecution` with `Writeback` by refining `Execute`, and of
   `AssistantTurn` and `AgentLoop` with the router's `Ask`.
