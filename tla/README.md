# Verification of the hardware assistant (saleor/hardware)

This directory holds TLA+ models of the hardware-assistant feature:

- `src/saleor/hardware/models.py`: the four record tables.
- `src/saleor/hardware/gemini_client.py`: the adapter to the remote generative model.
- `src/saleor/graphql/hardware/schema.py`: the GraphQL mutations and read queries.

It also holds TLC configurations that model-check the models on small instances, and TLAPS proofs that hold for every value of the constants.

## 1. The system

| Part | Code | State | Operations |
|---|---|---|---|
| Record store | `models.py` | HardwareIdentification, HardwareChat (`session_id`, `history` JSON), HardwareQuery (FK to chat, question, answer), ProductSimilaritySearch | rows are created; HardwareChat.history is overwritten by `save()` |
| AI gateway adapter | `gemini_client.py` | none (stateless, except configuration) | `_process_uploaded_file`, `identify_hardware_from_image`, `find_similar_products`, `hardware_chat`; each one catches every exception and returns a fallback (error text, `[]`, or the unchanged history) |
| API surface | `schema.py` | none of its own | `identifyHardwareImage`, `hardwareChatMessage`, `findSimilarProducts` (mutations); six read resolvers |

How the parts interact:

- Each mutation calls the adapter and then writes rows.
- The chat mutation is the only operation that rewrites existing state. It reads a session's history, makes a blocking remote call, writes the history back with `save()`, and then creates a HardwareQuery row.
- Nothing locks the row, and Django serves requests concurrently. Two messages on one session can therefore interleave.
- The adapter's calls end in a fallback value rather than an exception. The mutations themselves can still raise: a database error; `GeminiClient()` without an API key; `filter(category_id=...)` given a global ID that is not an integer (schema.py:247). Only the database errors can strike between two writes, so only they are modelled. The other two raise before anything is written and are stutters of the model.

Hard behaviours in the code:

- Interleaving of concurrent chat requests on one session, and the stale history that results.
- Partial failure of the remote call: the error text is recorded as an answer, but the history is unchanged.
- Two independent remote calls in `findSimilarProducts`.
- Python slice semantics for `max_results` when it is `None` or negative.
- Catalog order versus relevance order of the matches.
- Two separate writes (`save()` and `create`) with no transaction around them.
- A remote call with no timeout.

## 2. Modules

### ChatAbstract

This is the chat session as a client sees it: atomic messages.

- `OpenSession(s)` creates a session.
- `Message(s,q,a)` appends a `{question, answer}` row. When the answer is not the error text, it also appends the user turn and the model turn (`Extended`, from `hardware_chat` lines 145-168).

### HardwareChat

This models `HardwareChatMessage.perform_mutation` (schema.py 152-207) run by a set `Req` of concurrent request handlers. Each handler has a `pc` and the local variables `sid`, `snapshot`, `question` and `reply`. The database is `chats`, `history[s]` and `queries[s]`. The three actions correspond to the code as follows:

- `ReceiveExisting(r)` (lines 175-180): `HardwareChat.objects.get` succeeds, and the handler keeps `history = chat_session.history`.
- `ReceiveNew(r)` (lines 181-193): no id was given, or the id does not resolve, so a row is created under a fresh uuid4 with an empty history.
- `Save(r)` (lines 195-200): the remote call (any answer, or the error text) and `chat_session.save()` of `hardware_chat(...)["history"]`, built from the *snapshot*.
- `Record(r)` (lines 202-207): `HardwareQuery.objects.create`, then return.
- `SaveFails(r)` (lines 195-200): `chat_session.save()` raises, or the worker is killed while the remote call blocks. The request ends and nothing is written.
- `RecordFails(r)` (lines 202-205): `HardwareQuery.objects.create` raises after `save()` has committed. The turns stay and no row is created.

The two failure actions are enabled only when the constant `DbFailures` is TRUE. The model assumes Django's default autocommit, where each of the two writes commits on its own; nothing under `src/` wraps the mutation in a transaction.

The constant `SequentialClients` chooses the client behaviour:

- When it is TRUE, a client sends the next message on a session only after the previous one has returned. That is the front-end's normal use.
- When it is FALSE, messages on a session may overlap.

`MaxRequests` bounds the number of messages handled.

`HardwareChat` refines `ChatAbstract` (`ChatRefinement`) under this mapping:

- `queries` maps to `queriesBar`, which counts the row of a handler between `Save` and `Record` as already created.
- `Save` maps to `Message`.
- `ReceiveNew` maps to `OpenSession`.
- `ReceiveExisting`, `Record` and `SaveFails` map to stutters.

`RecordFails` has no abstract counterpart: the refinement holds only when `DbFailures` is FALSE.

No fairness is assumed, and no liveness property is checked (see Fairness in section 3).

`SequentialClients` TRUE counts a message as finished when the server's handler finishes. The remote call has no timeout, so a client or proxy may time out first and send the next message on the session while the first handler still runs. That is the overlapping case (`SequentialClients` FALSE, run chat_lost_update), and the results proved under sequential clients do not cover it.

### SimilarProducts

This models `IdentifyHardwareImage.perform_mutation` and `FindSimilarProducts.perform_mutation`, each as one atomic step. Each writes exactly one row, and neither changes the catalog, so no interleaving between them is observable. The remote model is an oracle:

- `identify` returns a label, the refusal sentence or the error text.
- `find_similar_products` returns any list of up to `MaxIds` ids, drawn from the products and from ids that name no product (`Junk`), or it fails (`Failed`, which becomes `[]`).

An upload with no MIME type (a file name without a dot, schema.py line 232) makes both calls fail.

The pure helpers model these parts of the code:

| Helper | What it models |
|---|---|
| `Candidates` | `product_database` built with the category filter |
| `Keep(s, X)` | the list comprehension `[p for p in s if ... in X]`: the elements of `s` in `X`, in the order of `s` |
| `FindSimilar` | the catalog-order filter at gemini_client.py line 123 |
| `SliceTo` | Python's `s[:m]` for an int or `None` |
| `ProductsIn` | `filter(id__in=...)` |

`Keep` is not written with `SelectSeq`. It is defined without recursion so that the proofs can reason about it. `KeptAt(s, X)` is the set of positions of `s` holding an element of `X`. `RankIn(s, X, i)` counts the kept positions up to `i`. The k-th element of `Keep(s, X)` is the element at the kept position of rank k. `MC_SimilarProducts` checks with `ASSUME KeepIsSelectSeq` that `Keep` equals `SelectSeq` on every sequence of up to four elements over three values, repeats included, and every set to keep. TLC evaluates this on every run of the module.

`ConstantsAssumption` requires `CatalogOrder` to list every product (`Range(CatalogOrder) = Product`) and each product once (`IsInjective(CatalogOrder)`). `Product.objects.all()` returns each row once, and `product_database` has one entry per row, so the code justifies both.

## 3. Runs

All bounds are small. Each run covers the case its question turns on.

### Passing runs

**chat_sequential** (`MC_HardwareChat`, `HardwareChat.cfg`; about 168k states, 15 s)

- Bounds: 3 session ids, 2 questions, 1 answer plus the error text, 2 handlers, 4 messages, sequential clients, no database failures.
- Properties: `TypeOK`, `SessionsExclusive`, `ChatRefinement`.
- What the bounds reach: two handlers busy on two sessions at once, a session reused after it returns, and failed and successful replies mixed.

**similar_products** (`MC_SimilarProducts`, `SimilarProducts.cfg`; about 28k states)

- Bounds:
  - 4 products, one of them without a category;
  - 2 categories, 1 junk id, answers of up to 3 ids;
  - `max_results` in {-1, 0, 1, 3, null}.
- Properties: `TypeOK`, `SimilarAmongCandidates` (only products of the requested category are returned or stored), `StoredMatchesReturned` (the stored row and the returned list agree), `WithinMaxResults` (a non-negative `max_results` bounds the result).

**chat_db_failures** (`MC_HardwareChat`, `HardwareChatFailures.cfg`; about 823k states, 15 s)

- Bounds: as in chat_sequential, with `DbFailures` TRUE.
- Properties:
  - `RowsBehindTurns`: whichever of the two writes raises, and at any point of a message, a session's history holds at least two turns per HardwareQuery row answered with a real answer. `save()` commits before `create()` runs, so a failure can leave turns without a row (chat_row_lost), but never a row without its turns. Its mutant `SaveErrorIgnored` swallows an error of `save()` and goes on to create the row.
  - `HistoryOnlyAppends`: no save ever cuts a session's history back.

**chat_rows_agree** (`MC_HardwareChat`, `HardwareChatRowsAgree.cfg`; about 168k states)

- Bounds: as in chat_sequential.
- Property: `TurnsHaveRows`. Once no message is in flight, a session holds two turns per HardwareQuery row whose answer is not the error reply. `RowsAgree` proves it for all bounds.

### Violation runs

**chat_row_lost** (`HardwareChatRowLost.cfg`)

- Setting: sequential clients, `DbFailures` TRUE.
- Property: `TurnsHaveRows`. Once no message is in flight, a session holds two turns per answered HardwareQuery row.
- Result: violated when `HardwareQuery.objects.create` raises after `save()`, because no transaction joins the two writes. With `DbFailures` FALSE the same invariant holds (chat_rows_agree).

**chat_lost_update** (`HardwareChatLostUpdate.cfg`)

- Setting: clients are not sequential.
- Property: `HistoryOnlyAppends`.
- Result: violated in 5 states.
  1. Handler r1 opens a session and saves its answer.
  2. Handler r2 read the empty history before that save.
  3. r2's remote call fails, and r2 saves its stale snapshot. The turns r1 stored are gone.

This is a lost update: schema.py:199 has no lock and no `select_for_update`. A successful r2 loses them just the same.

**chat_history_per_query** (`HardwareChatTwiceQueries.cfg`)

- Property: `HistoryTwiceQueries`, the specification's property 3 (after N calls the history holds 2N turns).
- Result: violated by one failed remote call. A HardwareQuery row is created with the error text, and no turns are added.

**similar_relevance_order** (`SimilarProductsOrder.cfg`)

- Property: `RelevanceOrderKept`, the specification's property 6.
- Result: violated by the answer `<<p2, p1>>`. The result follows the catalog order (gemini_client.py:123, and `filter(id__in=...)` at schema.py:285), and truncation keeps the first matches in the catalog, not the best-ranked ones.

**similar_max_results** (`SimilarProductsMax.cfg`)

- Property: `NeverMoreThanMax`, the specification's property 4 (at most 3 by default).
- Result: violated. An explicit `null` `max_results` gets past `input.get("max_results", 3)`, and `[:None]` returns every match. A negative value only drops the last matches.

### Mutants

For each property of a passing run, `PROJECT.json` names a plausible bug, written as an operator beside the code's definition. Each mutant was checked to break its property:

| Mutant | What the bug does |
|---|---|
| `HistoryWithErrorTurn` | the error text is appended as a model turn (breaks `TypeOK` and `TurnsHaveRows`) |
| `ReceiveNewReuse` | a new session may reuse an id in use |
| `HistorySwappedTurns` | the turns are appended in swapped order |
| `IdentifyOutcomeSentinel` | the failure sentinel is stored as a component name |
| `CandidatesUnfiltered` | the category filter is dropped |
| `FindSimilarInAnswerOrder` | the matches are listed in answer order, one per id |
| `SliceToOffByOne` | one result too many is kept |
| `SaveErrorIgnored` | an error of `save()` is caught and the row is created anyway (breaks `RowsBehindTurns`) |
| `HistoryResetOnError` | the except branch returns `[]` instead of the history (breaks `HistoryOnlyAppends`) |

### Fairness

No fairness is assumed and no liveness property is checked. The remote call has no timeout (gemini_client.py:147, and the calls at 77 and 109), so the code does not justify assuming that a handler eventually leaves `save`. "Every message is eventually answered" is therefore false for this code when the remote service hangs. The only step the code does guarantee is the HardwareQuery insert right after `save()`. Under fairness on that step, "a saved message gets its row" would hold by the shape of the model, whatever the code did, so it is not stated.

## 4. Proofs

### HardwareChat_proofs

The proofs depend only on `ConstantsAssumption`: a non-empty question set, an error text distinct from the answers, `NoSid` not a session id, `MaxRequests \in Nat`, and Boolean flags. All obligations are checked by tlapm. `TypeCorrect`, `Exclusive`, `AppendsOnly` and `RowsBehind` hold whether or not database writes raise.

#### TypeCorrect

`Spec => []TypeOK`. It rests on the lemmas `ExtendedType` (the history `hardware_chat` returns is a sequence of turns) and `TypeStep`.

#### Exclusive and SessionsExclusiveHolds

`SequentialClients = TRUE => (Spec => []SessionsExclusive)`.

`SessionsExclusive` is not inductive by itself. `ReceiveNew` takes an id from `Sid \ chats`, and for the new handler's empty snapshot to equal the row's history, that history must be empty. The strengthening is:

`IInv == TypeOK /\ FreshRowsEmpty /\ SessionsExclusive`

Here `FreshRowsEmpty` says that a session id with no row has an empty history and no queries. TLC checked `IInv` on the sequential model before the proof was written. The argument for each action:

- `ReceiveExisting` is guarded by "no other handler is busy on s".
- `ReceiveNew` uses a fresh id, and `FreshRowsEmpty` supplies the empty history.
- `Save` moves the only handler on the session out of `save`.
- `Record`, `SaveFails` and `RecordFails` free the session.

#### Refinement

`SequentialClients = TRUE /\ DbFailures = FALSE => (Spec => ChatRefinement)`.

The proof has three parts:

- Init maps to the abstract Init.
- `ReceiveNew` is `OpenSession`.
- `Save` is `Message`. This step uses the third conjunct of `SessionsExclusive`: the snapshot the code saves equals the current history, so the result is the abstract append.

`ReceiveExisting` and `Record` leave `queriesBar` unchanged. The lemmas `BarUnchangedAt` and `BarUnchanged` cover this: the pending set of a session has at most one element, by the second conjunct of `SessionsExclusive`.

#### AppendsOnly

`SequentialClients = TRUE => (Spec => HistoryOnlyAppends)`.

Under `IInv`, a `Save` writes `hardware_chat(q, history[s], a)["history"]`, because the snapshot equals the current history. The lemma `ExtendedPrefix` shows that this result starts with the history passed in. Every other step leaves `history` unchanged.

#### RowsAgree

`SequentialClients = TRUE /\ DbFailures = FALSE => (Spec => []TurnsHaveRows)`.

`TurnsHaveRows` is not inductive: between `Save` and `Record` the session holds two turns more than its rows account for. `RowsInv` counts those turns:

`Len(history[t]) = 2 * Cardinality(Answered(queries[t])) + Owed(t)`

Here `Owed(t)` is 2 when a handler at `record` on `t` holds a real answer, and 0 otherwise. The proof uses `[]IInv` from `Exclusive`, which makes such a handler unique. It also rests on three lemmas:

- `ExtendedLen`: the call adds 2 turns or none.
- `AnsweredAppend`: a new row adds 1 or 0 to the answered count. It uses `FS_AddElement` and `FS_Interval` from FiniteSetTheorems.
- `OwedSame`.

#### RowsBehind

`SequentialClients = TRUE => (Spec => []RowsBehindTurns)`, whatever `DbFailures` is.

The strengthening is the inequality form of `RowsInv`:

`RowsLeInv == 2 * Cardinality(Answered(queries[t])) + Owed(t) <= Len(history[t])`

The proof has one case per action, like `RowsAgree`, and uses the same lemmas. The two failure actions are what differ:
- `SaveFails` changes neither table.
- `RecordFails` drops `Owed(s)` from 2 or 0 to 0 and changes neither table, so the inequality is kept.

An equality cannot hold here: chat_row_lost shows a session left with turns and no row.

### SimilarProducts_proofs

These proofs depend only on `ConstantsAssumption` of `SimilarProducts`. They hold for every catalog, every category assignment, every remote answer and every `max_results`. All 306 obligations are checked by tlapm.

| Theorem | Statement |
|---|---|
| `TypeCorrect` | `Spec => []TypeOK` |
| `CategoryRespected` | `Spec => []SimilarAmongCandidates` |
| `StoredIsReturned` | `Spec => []StoredMatchesReturned` |
| `MaxResultsBound` | `Spec => []WithinMaxResults` |

All four follow from `ResponseInvariants`, `Spec => []IInv`, where `IInv` is the conjunction of the four properties. `IInv` is inductive as it stands and needs no strengthening: each `findSimilarProducts` call recomputes the whole response from the catalog, and `identifyHardwareImage` leaves the response alone.

The real content is in the lemmas about the filter. They are proved by counting, not by induction:

- `RankBounds`, `RankStrict` and `RankInjective`: ranks of kept positions lie in `1..|KeptAt|` and grow strictly along the positions.
- `PosProps`: every rank is taken, so the `CHOOSE` in `Keep` picks a kept position. The proof uses `FS_Injection`: an injection between finite sets of the same size is onto.
- `KeepProps`: `Keep(s, X)` is a sequence over `S \cap X` with range `Range(s) \cap X`.
- `KeepInjective`: filtering a list without repeats gives a list without repeats.
- `InjectiveCard`: a list without repeats is as long as its range (`FS_CountingElements`).
- `SliceProps`: `s[:m]` keeps a prefix, at most `m` elements long for `m >= 0`.
- `KeptIdsProps`: the ids kept are products of the requested category, without repeats.
- `ProductsInProps`: because the catalog lists each product once, `filter(id__in=ids)` returns exactly as many products as there are ids.

`StoredIsReturned` needs both catalog assumptions. The length part holds because the kept ids have no repeats. The mutant `FindSimilarInAnswerOrder`, which keeps repeated ids in answer order, breaks it.

### Only model-checked

- The violation runs.
- `KeepIsSelectSeq`: `Keep` equals the ordered filter `SelectSeq`. It is checked on bounded inputs only, because an equality with the recursive `SelectSeq` for every input would need induction over sequences, which the installed provers cannot instantiate.
- `RelevanceRanking`/`RelevanceOrderKept` and `NeverMoreThanMax`, which are violation runs.

## 5. Not modelled

- The read resolvers (`HardwareQueries`, and `resolve_queries`/`resolve_similar_products` of the types). They change no state and each is a single SELECT. `HardwareChatType` has no history field, so a reader sees only HardwareQuery rows, which are never updated. A property about a reader's view would hold by the shape of the model.
- `GeminiClient.__init__` configuration, and the prompt texts.
- The type of `Product.description`. The Product model is not under `src/`. If descriptions are not strings (upstream Saleor stores JSON), `p.get('description', '')[:100]` (gemini_client.py:102) raises for any non-empty catalog, and `find_similar_products` then always returns `[]`. The model lets every call fail (`Failed`), so the properties that pass stay sound. But the successful searches in the traces of similar_relevance_order and similar_max_results may not arise with such a catalog.
- The GraphQL type declarations.
- The `category_id` global ID being used as a raw primary key (schema.py:247). It is a type mismatch outside the control flow.
- A remote call that never returns is not modelled as a separate action. It is a handler that never takes `Save`, which the model allows because no step is fair.
- `findSimilarProducts` and `identifyHardwareImage` write one row each in one step. An abstract specification of them would be the same one-step relation, so no refinement is stated for them.

## 6. Plan for later work

1. Prove action properties of the chat handlers beyond `HistoryOnlyAppends`, for example that a HardwareQuery row, once written, never changes.
2. Add a property relating the identification and the similar-products outcome of one `findSimilarProducts` call, should the specification come to state one.
