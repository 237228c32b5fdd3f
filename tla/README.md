# navi: specifications, checks and proofs

Navi is a social platform: a NestJS gateway and seven Kafka services, a user
SPA and an admin SPA. This directory holds TLA+ modules translated from that
code, the TLC configurations that check them on small instances, and theorems
about them checked by TLAPS for every instance.

Paths below are relative to `src/`; service paths drop `backend/apps/`.

## 1. The system

### 1.1 How it executes

Every domain service is one Kafka consumer group (`*/src/main.ts`). A topic has
three partitions (`docker-compose.yml:39`, `helm/navi/values.yaml:83`), so up to
three replicas of a service work at once; the chart's default is one
(`helm/navi/templates/deployment.yaml:18`). A replica takes one message at a
time and runs its handler to the end before it commits the message. So

* the handlers of one replica never interleave; those of two replicas
  interleave wherever the code awaits;
* delivery is at least once. A replica that dies, or that sits in a handler
  longer than its 30 s group session (the AI wait alone may take 45 s), leaves
  its message to be delivered again; in the second case the first handler
  runs on;
* no handler retries anything: a rejected query throws and answers 500,
  keeping what it wrote before, and there is no transaction but the two of
  user-service;
* an RPC to another service has no timeout, except the AI moderation call.

Those four facts are where nearly every hard behaviour of the code comes from,
and they are the common part of every module here.

### 1.2 Components

| component | state | operations | talks to |
|---|---|---|---|
| api-gateway | sockets, calls in progress | HTTP and WebSocket entry, guards, call signalling | every service (RPC) |
| auth-service | users and their standing, refresh tokens, OTPs, AI settings (Postgres) | sign-up, sign-in, token rotation, password reset, penalties, blocks | ai-service (settings), notification (events) |
| user-service | profiles, follows, follower counters (Postgres) | profile, follow, unfollow, suggestions, uploads, mails | notification (events) |
| network-service | posts, comments, likes, shares, reports (MongoDB) | posting and moderation, engagement, reports, administration | ai (moderation), auth (standing), user, notification (events) |
| ai-service | a 15 s cache of the moderation settings | judge a post's text and media | auth (settings), OpenAI |
| chat-service | groups, messages (MongoDB) | direct messages, groups, membership | user |
| notification-service | notices (MongoDB) | store, fan out to followers, count, mark, push to the gateway | user (followers) |
| admin-service | none | a stub answering one greeting | nobody |
| user SPA | stores of the session, profiles and follows, notices, the call; per page rows, drafts, uploads | chat, call, post, share, comment, like, follow, search, sign in | api-gateway, the video service |
| admin SPA | a form of the moderation settings; lists | edit the settings, judge posts, reports and users | api-gateway |

Properties that make each correct, and the hard behaviours behind them:

* **Posts** (network-service). A public post is held until the AI has judged
  it; the AI may be slow, fail, or answer while an administrator decides or the
  author edits or deletes. A removal must stick, be penalised once and be told;
  a held post must be announced; an upheld report must mean a removal.
* **Engagement** (network-service). A like or comment is one write and its
  counter another. Counters must be right when nothing fails, no like may be
  counted twice, a removed comment must take its replies and likes along.
* **Follow graph** (user-service). Every handler checks before it writes; the
  unique columns and a transaction decide. Edges and both counters must agree
  at every moment, names stay unique, a follow is announced once.
* **Standing and sessions** (auth-service). Penalties are read, incremented and
  written back; a sign-in lifts an expired block with a blind write; rotation
  deletes one token and creates another; a password reset and a block end every
  session. A block must stand, a session must not multiply.
* **Sharing and the feed** (network-service, SPA). A repost, a share row and a
  counter, with compensation when the unique index refuses the row; a feed read
  page by page while posts come and go, with cards that like before they are
  answered and patches carried back from a post's page.
* **Chat** (chat-service, gateway, SPA). A direct conversation is looked up, then
  created; the group limit of 50 is read, then applied; a page hears of one
  message as the answer to its request, as a push and with a history.
* **Calls** (gateway, SPA). Ringing, accepting in two tabs, rejecting, hanging up
  and closing cross on a socket, on a broadcast channel and in the meeting.
* **Notifications**. A redelivered event stores its notice again; the pushed
  notice, the fetched list and the unread count come apart.
* **Sign-up** (auth-service, user-service, SPA). A user, a code and a mail are
  three writes; codes are resent and verified from several windows.
* **Sessions in the browser** (SPA, gateway). One refresh for many failing requests,
  one cookie for several windows.
* **Moderation settings** (admin SPA, auth-service, ai-service). A copy up to 15 s
  old; a partly failed analysis counts as safe; two administrators edit at once.
* **Composers and threads** (SPA). Uploads that end in any order; answers for a
  post, a thread or a button that is gone.
* **Whom one follows** (SPA, user-service). Buttons that flip before they are
  answered, while other parts of the page load the list they flip.

`PROJECT.json` lists the components with their sources and status, and under
`hazards` each of these behaviours at the line where it bites.

## 2. The modules

| module | what it is |
|---|---|
| `ConsumerGroup` | a service's replicas and their messages: take, finish, throw, die, outlive the session |
| `PostLifecycle` | posts, moderation, administrators' verdicts, reports |
| `Engagement` | likes, comments, their counters (extends ConsumerGroup) |
| `FollowGraph` | profiles and follows (extends ConsumerGroup) |
| `Accounts` | the standing of accounts and their sessions (extends ConsumerGroup) |
| `SocialGraph` | abstract: what FollowGraph promises of edges and counters |
| `Chat` | chat-service: conversations, groups, messages (extends ConsumerGroup) |
| `Messenger` | Chat behind the gateway, with the chat page of each user (extends Chat) |
| `Calls` | tabs, sockets, broadcast channel and meetings of calls |
| `Feed` | the home page over posts, likes and shares |
| `Notices` | events, stored notices, their relay, and what the page shows of them |
| `Sessions` | the windows of a browser and the session they share |
| `SignUp` | the way in: account, codes, mail, profile, and the pages between |
| `Attachments` | a composer and its media picker |
| `Thread` | comments, replies and hearts on the page of a post |
| `Moderation` | the settings page, the stored settings, ai-service's copy and verdicts |
| `Directory` | the follow set, follow buttons, profiles, search and suggestions |
| `Lists` | sorting and filtering as functions of a rank, for the modules proved about |
| `MC*` | the message sets and starting states the runs use |
| `*_proofs` | the theorems, with their proofs: of the module named; `Pages_proofs` of `Messenger` and `Thread`, `Tabs_proofs` of `Sessions`, `SignUp`, `Calls` and `Notices`, `Web_proofs` of `Moderation`, `Attachments` and `Directory` |

### 2.1 Handlers as actions

A handler is split at its awaits and nowhere else. `pc[r]` names the await
replica `r` stands at; the first one of a handler bears the message pattern of
the controller (`"post.like"`), the later ones names of their own. The step
that leaves an await is the database operation or RPC answer awaited *together
with* the synchronous code after it up to the next await: the check of the
result, the early return, the emit. `job[r]` is the message, and what a handler
keeps from an earlier await in a local variable is a variable of the model only
where it is used after another await (`loaded` in PostLifecycle is the copy of
a post that a Mongoose `save()` later writes back; `doomed` in Engagement is
`idsToDelete`).

The messages a run sends are a fixed set (`Requests`); each is delivered in any
order, to any replica, and only when it names something the service has already
shown (`Sendable`). Equal messages are told apart by `id`.

Faults are actions of the model, bounded by `MaxFaults`: a replica dies at any
await, a handler outlives its session (its message comes back while it runs
on), a query rejects. `faults` and the other variables marked auxiliary only
record; no action reads them but to respect the bound.

### 2.2 PostLifecycle

`visibility` is the posts collection (with "absent" before and "erased" after a
document exists), `reportStatus` and `reportTarget` the reports. `post.create`
walks posting check, save, AI wait, verdict, save, notice or fan-out, and the
check after a failed or late verdict; `post.update`, `post.delete`, approve,
reject, file, mark and review are whole. `rejectPost` called inside
`reviewReport` is the same code with the review's message, as in the source
(`admin-reports.service.ts:113`): nothing is caught there, so a post that was
removed already, like any other error, ends the review. `SaveVisibility` is Mongoose's `save()`: it writes only
paths that changed since the load and fails when the document is gone. `sent`
counts events, `penaltyCalls` counts RPCs to auth-service; `removals` counts
saves that stored "deleted".

Abstracted: text, media, scores, reviewer ids, timestamps and every read-only
query.

### 2.3 Engagement

A *target* is a post or a comment: `likeCount` and `childCount` (commentCount of
a post, replyCount of a comment) range over both, and so do `likes` and its two
unique indexes. `Bumped` is `updateOne` with `$inc`: nothing happens to a
document that is gone and nothing bounds the counter. The post's own life is
reduced to what engagement sees of it (`ChangePost`): open, hidden from
`findById`, or erased. `interrupted` marks the targets whose second write a
fault may have cut off.

`deleteMany` over a comment and its replies is one step; MongoDB deletes
document by document, but no step of the module tells the two apart by more
than an earlier or later position of the same reply. Editing a comment's text
is left out: it touches nothing else.

### 2.4 FollowGraph and SocialGraph

`username` (profiles), `follows` (edges) and the two counters are the Postgres
rows. The creation, update, follow and unfollow handlers look first, then
write; the write is atomic (one statement, or one `$transaction`) and fails as
a whole when the unique name, the unique pair, the deleted row or the
follower's own profile says so. `SocialGraph` is three lines long: an edge comes
or goes between two different users and the counters move with it.
`GraphSpec == Graph!Spec` says FollowGraph implements it, under the identity
mapping of the four shared names.

### 2.5 Accounts

`user` holds of each row its status, the two block dates, the count of
violations and the password; `token` the refresh tokens ever issued, `live` those
stored now. `seen[r]` is the row a handler read first and the day it read it:
the password is compared with that copy, a penalty is the copy's count plus
one, a block counts its days from then. The writes are `update` by key of the
columns named and nothing else, so `Lift` changes status and date of whatever
row is there. `refreshToken.delete` fails when the row is gone (`RefreshDelete`),
`deleteMany` does not. `Found` is the lookup of a token: unexpired, and among the
newest 2000 (`ScanLimit`).

A token carries the *root* of its session, the token a sign-in gave, and the
password that opened it; rotation hands both on. These, `charged`,
`byAdmin`, `signedOut` and `halfReset` are auxiliary: they remember what the
properties speak of and no action reads them but to hand them on.

Time is the day (`today`), which moves only to members of `Days`: blocks of one
to seven days and sessions of fifteen end within the runs. `MaxTokens` and
`MaxSent` bound tokens issued and messages taken up; `Earlier` lets members start
with violations, so that few penalties reach every branch of `Penalised`.

Abstracted: the comparison of hashes (a client holds tokens it was given), the
access token (a signed statement the gateway checks alone, with no state here),
the reset link, which may be refused, and e-mail verification, which is taken as
done.

### 2.6 Chat and Messenger

`Chat` is chat-service split at its awaits like the services above: `members` and
`kind` are the conversations, `messages` the collection (a message's id is its
place in it), `preview` what `last_message` says. `SendTo` looks for a direct
conversation, `SendCreate` makes one; `AddFind` compares what it read with
`GroupLimit`, `AddSet` writes. `Page` cuts a thread as `list_messages` does: sorted
oldest first and limited, so it is the oldest messages that a long thread shows.

`Messenger` puts the gateway and the browsers around it. `Forward` is the gateway's
service: it passes on a request, and with the answer pushes to the sockets of
the receivers and answers the page. A page (`ChatPage.tsx`) has its thread, its
list, the conversation open and what it waits for (`busy`); its HTTP answers
(`http`, a set) and its socket (a sequence) keep no order between them. `crossed`
is auxiliary: it marks a page in which two loads, or a load and a message, met
on their way, or one was lost.

### 2.7 The pages and their services

The modules from `Calls` to `Directory` model a feature end to end: the person, the
page's state, the requests under way and the service's answer. They share a
form. A request is a record in a set (or a sequence where the code's channel
keeps order) with the step it has reached; one action takes it to the service,
one brings the answer back, one loses it. The service side is one step where
another module has its interleavings (`Thread` leaves likes and removals to
Engagement, `Directory` follows to FollowGraph), and step by step where none has
(`SignUp`'s queries, `Feed`'s four writes of a share, `Notices`' save and publish,
`Moderation`'s cache and parts). Mounting and unmounting is part of the action
that navigates: what a page that is left still accepts, and what it drops, is
what its effects' clean-ups say.

* `Calls`: `incoming`, `session` and `elsewhere` are the call store of a tab, `sdk` its
  place in the meeting, `wire` its socket, `news` the channel of its user's tabs.
  The shell, which alone reacts to the meeting, is mounted on `/call` only.
* `Feed`: `rows` and `cards` are the page, `paging` its cursor, `overlay` the post's
  page shown over it, `patches` what navigation carries back; `stored`, `shares` and
  `shareCount` the collections.
* `Notices`: `inbox` are events to be handled, `topic` stored notices to be relayed,
  `items` and `unread` the store behind bell, panel and page.
* `Sessions`: the n-th refresh token and the n-th access token are granted together;
  `jar` is the cookie, `key` the stored access token. Rotation is find, delete,
  create, as in Accounts, which has its races; here two windows drive it.
* `SignUp`: `account`, `code` and `outbox` at the services, `at` and `signedIn` per
  window, `asking` the requests, each at one of its queries.
* `Attachments`: the picker's `urls`, its uploads and its mirror of the list, in the
  three composers, which differ in what closing and Enter do.
* `Thread`: `listed`, `threads` and `hearts` are the states of the page, of each
  thread and of each comment's heart, mounted and lost with what they show.
* `Moderation`: `desks` are the settings pages, `setting` the row, `configCache` is
  ai-service's copy with the tick it was read at, `analyses` posts being judged part by part.
* `Directory`: `cache` is the store (`ids` are `followingIds`, `counts` the counters
  of cached profiles), `view`, `finder` and `panelOf` the pages. `Effects` are the
  two effects that load the list: the navigation bar's, run again whenever
  `myProfile` is a new object, so after every flip too, and the directory's, run
  again whenever the set changes size.

In each, variables marked auxiliary remember which post, person or window a
failure or one of the races listed in section 6 touched. The properties
are about everything else, so they hold in spite of every other interleaving;
what the races do is in section 6.

`MCWeb` composes the nine: they share no state, so a variable `focus` picks one at
the start and the others stand still.

## 3. The runs

TLC, all with deadlock checking off because a service whose messages are all
handled legitimately stops.

| run | instance | shows |
|---|---|---|
| `posts_replicas` | 2 fair replicas, 1 fault, 6 messages, 2 posts, 2 reports | `PenaltyBackedByRemoval`, `PendingIsAnnounced`, `UpheldMeansRemoved`, `ErasedStaysErased` under every interleaving; `OnlyAuthHoldsUp` |
| `posts_serial` | 1 replica, 1 fault, 11 messages, every audience | `RejectionFinal`, `NoDoubleRemoval`, `OneVerdictPerReport`, `FanoutShowsViewable` |
| `posts_rejected` | 1 replica, no fault | finding: an author's edit brings a removed post back |
| `engagement_replicas` | 2 replicas, 1 fault | `LikesAccounted`, `LikesAreTold`, `NeverOvercounted` |
| `engagement_serial` | 1 replica, 1 fault, 2 posts, 3 comments | `CountsAreExact`, `NoOrphanReplies`, `LikesGoWithComment` |
| `engagement_negative` | 2 replicas, no fault | finding: commentCount reaches -1 |
| `follow_friends` | 2 replicas, 1 fault, 2 users, 2 spellings of a name | `GraphSpec`, `CountersExact`, `ProfilesSound`, `NoticesAreBacked` |
| `accounts_replicas` | 2 replicas, 1 fault; any 6 of 11 messages about a session, or any 4 of 6 about a standing (2 penalties), 3 or 5 violations at the start, days 0, 8 | `SessionsNeverMultiply`, `SignOutIsFinal`, `NeverOvercharged`, `PunishedAsEarned` |
| `accounts_serial` | 1 replica, 1 fault, any 4 of 11 messages, days 0, 2, 16 | `BlockStands`, `BlockEndsSessions`, `ResetEndsSessions` |
| `messaging` | 2 users at their pages, others away; 1 replica, from nothing stored, and from a direct conversation and a group; 2 replicas, from a group with room for one, or none, whose two members at their pages have two acts between them | `NoMessageTwice`, `ThreadAgrees`, `ControlsComeBack`, `DirectIsUnique`, `GroupNearLimit` |
| `web` | one feature at a time, 3 to 6 acts of the person, 1 failure | `CallsSettle`, `FeedAgrees`, `NoticesAgree`, `SessionsKept`, `SignUpHolds`, `AttachmentsKept`, `ThreadHolds`, `ModerationHolds`, `DirectoryHolds` |
| `follow_shown` | 2 others, 3 acts, no failure | finding: a button shows Follow for one who is followed |

The types of `PostLifecycle`, `Engagement`, `FollowGraph` and `Accounts` are proved, not run.

**Why these bounds.** Every property here is about one post, one comment thread
or one pair of users, and is broken, when the code is changed to break it, by at
most two handlers at once: two replicas give every pairwise interleaving, and a
third would repeat them. A second post or user shows that the handlers do
not reach across; one fault gives one redelivery, which already meets the
handler that outlived its session. Each property comes with a mutant of the
code that TLC finds it violated under at the same bounds, so none of them is too
small for the case it is about.

In `web` and `messaging` the interesting cases are two things under way at once: two
requests, a request and a push, an upload and a closing, two windows. Each
feature's bound allows the acts that put two of them on their way and one more,
and a failure of either. Calls have two parties, a second tab and, in another
start, a third person; lists have pages of one or two rows, so that three rows make
them go on. Where `messaging` has two replicas, a group has room for one and two
others are there to be added at once: it does pass the limit. Two acts are too few there for two first
messages, so `DirectIsUnique` says what one replica keeps.

**Which replicas?** Properties named under *one replica* are false with two, and
the runs say so by their instance: the races are listed as hazards. The chart
ships one replica; scaling it gives these properties up.

**Fairness** (`posts_replicas`, for `OnlyAuthHoldsUp`). Each replica is weakly fair in
the steps of its handler that need the event loop, the database and Kafka only, and in
taking up messages: the event loop runs what is ready, the consumer polls, and the
drivers answer or fail. Nothing is promised of others. The AI need not answer: rxjs'
`timeout` does, and the run fails when it is taken out. Nor need auth-service: its two
calls (`assertAuthorCanPost`, `posts.service.ts:26`, and the penalty,
`admin-posts.service.ts:187`) have no timeout, so their answers are not fair steps
(`AuthWaits`), and a replica may stand there for ever. That is what the property says:
from any moment on there comes another at which each replica either has nothing more
to take up or stands before auth-service. Faults are never fair.

## 4. Findings

* **A removed post can be brought back by its author** (`posts_rejected`).
  `post.schema.ts:13` says of "deleted": *Admin rejection — never shown.* But
  `update()` (`posts.service.ts:305`) finds the post by id and author only and
  writes whatever audience was asked for. The same line publishes a post on
  hold without any verdict, against the comment at `posts.service.ts:72`.
* **Counters go negative** (`engagement_negative`). `post.schema.ts:36-42`
  declares `min: 0`, which `updateOne` with `$inc` does not enforce; two removals
  of one comment (its author's and the post author's) on two replicas leave
  commentCount at -1. The same follows for likes from a failure between
  the like and its count.

* **A follow button shows Follow for one who is followed** (`follow_shown`).
  `FollowEdgesPage.tsx:47` says the button "consults `useProfileCache` so the active
  state is correct". The flip changes `myProfile`, on which `AppNavBar.tsx:81` loads
  the following list anew; that request races the follow itself, and if it is
  read first and answered last, it takes the flip back. Nothing failed, and
  nothing loads the list again; the next click answers 409 and rolls back what
  was not marked.

## 5. What is proved

For every finite set of replicas and users, every set of messages and posts,
every number of windows, pages and failures. The constants' assumptions are
named in the modules and evaluated by TLC on every run: messages have the shape
of `Request`, the "none" values ("gone" for a window that is closed) are not
members of the sets they stand beside, and the replicas, users and comment ids
are finite.

A theorem whose name begins with `Serial` has the hypothesis that any two
replicas are one (`\A r, s \in Replicas : r = s`): the deployment as the chart ships
it. Without it the statement is false, and section 6 says how. Faults are not
excluded: the message of a handler that died or threw on the way may come back.

The modules of the pages have a starting predicate with parameters (which pages
are open, how many acts were spent), from which a run takes a few values; the
theorems take any. Those about chat also ask that the conversations stored at
the start are between users, and no pair has two direct ones (`Proper`), as is so
of nothing stored, and of what the run starts from.

| theorem | says | argument |
|---|---|---|
| `PostLifecycle_proofs!TypeCorrect` | `[]TypeOK` | `BaseInv`: types, and a handler at work holds a message of its pattern and a stored subject |
| `PenaltiesAreBacked` | `[]PenaltyBackedByRemoval` | per post, calls made plus replicas standing between save and call (`Owing`) never exceed saves; a cardinality that a step moves by one |
| `HeldPostsAreAnnounced` | `[]PendingIsAnnounced` | a post turns "pending" only in the hands of a replica that stays on the moderation path until it has told |
| `UpheldReportsRemove` | `[]UpheldMeansRemoved` | a replica that settles a report of a post after the rejection has saved that rejection; one that was refused never comes to settle |
| `ErasedPostsStayErased` | `ErasedStaysErased` | every write is guarded by the document's being there |
| `SerialRejectionFinal`, `SerialRemovalOnce` | `RejectionFinal`, `NoDoubleRemoval`, for `Cardinality(Replicas) = 1` | `CopyFresh`: with one replica, the copy a handler holds is what is stored |
| `SerialOneVerdict` | `[]OneVerdictPerReport`, if no review asks for "pending" again (`NobodyReopens`) | `VerdictInv`: an open report's reporter was told nothing, and the replica about to tell has just settled it |
| `SerialFanoutViewable` | `FanoutShowsViewable` | between the save that shows a post and its fan-out nobody else writes; a step of another handler would need another replica |
| `Engagement_proofs!TypeCorrect` | `[]TypeOK` | `BaseInv`: types, a message of its pattern and ids allocated before they are named in every hand, and removals that list their comment and its replies only |
| `LikesCounted` | `[]LikesAccounted` | `LikeInv`: per target, every step moves likes stored, likes counted and the replicas between the two by the same one (`Balance`); a comment not allocated has none, and a removal takes the likes of what is gone |
| `LikesTold` | `[]LikesAreTold` | a like stored goes with the replica that tells, until a fault stops it there |
| `CommentsNeverOvercounted` | `[]NeverOvercounted` | `ChildInv`: a replica on its way down (`Leaving`) stands for one comment gone at most, as the replies listed with a comment hang from that comment |
| `SerialNoOrphans` | `[]NoOrphanReplies` | `SerialInv`: the parent a handler looked up, and the replies a removal listed, are still what is stored when it writes |
| `SerialCountsExact` | `[]CountsAreExact` | `ExactInv`: per target not interrupted, count and truth differ by the one handler between its two writes; `LikesAccounted` gives the likes |
| `SerialLikesGo` | `[]LikesGoWithComment` | `Swept`: a like of what is gone is in the list of the removal that is about to take it |
| `FollowGraph_proofs!FollowsAsPromised` | `Spec => GraphSpec` | every step is a `SocialGraph` step or a stutter, because the commit re-checks the pair; `NoSelf` from the check before it |
| `CountsAreLengths`, `TypeCorrect` | `[]CountersExact`, `[]TypeOK` | by induction on `SocialGraph`'s step, from finite sets; the counters' sign follows from their being cardinalities |
| `ProfilesStaySound` | `[]ProfilesSound` | profiles only appear; a follower past the look at its target knows it still exists; `FreeFor` at each name's write |
| `NoticesBacked` | `[]NoticesAreBacked` | notices sent plus replicas about to send never exceed edges made |
| `Accounts_proofs!TypeCorrect` | `[]TypeOK` | `BaseInv`: types, and handlers at work on a message of their pattern and a token that was issued |
| `OneTokenASession`, `SignedOutForGood` | `[]SessionsNeverMultiply`, `[]SignOutIsFinal` | `SessionInv`: a rotation between its two writes holds its session's only token in its hand; so stored tokens and hands of one session are one at most, and none once it is signed out |
| `ChargesAreBacked` | `[]NeverOvercharged` | warnings given plus replicas about to warn, counts stored and counts read are all bounded by penalties stored |
| `PunishedWhenDue` | `[]PunishedAsEarned`, for any number of replicas | the count in a penalty's hand, however stale, is covered by the penalties stored before it (`ChargeInv`), so what it sets at the fourth, or the sixth, has four, or six, behind it; an administrator's block is told apart until it is lifted, by whom ever |
| `SerialBlockEndsSessions`, `SerialResetEndsSessions`, `SerialBlockStands` | `[]BlockEndsSessions`, `[]ResetEndsSessions`, `BlockStands` | `StandingInv`: the row in a handler's hand (`seen`) is the stored one, so what it decides on a password or a block is current; a handler that rotates or signs in found its user unblocked |
| `Pages_proofs!ControlsReturn` | `[]ControlsComeBack`, for any number of replicas | `BusyInv`: each disabled control has its own request, answer or upload under way (`Awaited`), and whatever takes that away frees the control |
| `GroupStaysNear` | `GroupNearLimit`, for any finite number of replicas | `RoomInv`: while any replica stands between its look at a group and its write (`Adding`), the group's members and the replicas that stand there are together fewer than the limit and all replicas: the one that found room last was within the limit alone |
| `SerialDirectUnique` | `[]DirectIsUnique` | `DirectInv`: a handler that found no conversation of a pair still finds none when it writes |
| `ShownOnce` | `[]NoMessageTwice` | `PagesInv`: a page adds a message only where it is not, and what a load brings is a thread, which has none twice (`AscendingList`) |
| `ThreadSettles` | `[]ThreadAgrees`, for any number of replicas | `Follow`, per page not `crossed` with a conversation open (`Watched`): what is shown is of that conversation, and every message of it is in the thread, or on its way there: in the load under way, in an answer, on the socket, or in the hands of a replica that is to tell the page (`Coming`) |
| `ThreadKept` | `[]ThreadHolds`, for any number of comments, clicks and failures | `ThreadInv`. The page (`PageHere`, until it `wandered`): a load is alone, an own comment under way is not listed, one being deleted is. A row nobody changed unread (`Watching`) counts what its thread shows, and each answer under way for it adds what is not there or drops what is (`Settled`), or its thread shows nothing, one request may read its replies, and no step changes how many there are (`Unread`). A heart not `dark` knows the one request under way for it, and shows what is stored or what that request is about to store (`HeartsKept`) |
| `Tabs_proofs!SessionKept` | `[]SessionsKept` | `SessionInv`: until two of them met (`met`), one renewal at most is under way, and none beside a sign-out; the cookie is good or that renewal will make it so; a sign-out has the cookie's token with it, and nothing on its way opens the session again |
| `SignUpKept` | `[]SignUpHolds` | `SignUpInv`: the code stored is on its way, in the mail or in a request's hand; a window sits where its own requests, or their answers, take it further |
| `CallsSettled` | `[]CallsSettle`, for any number of users, of tabs of each (finite) and of rooms | `CallsInv`, of the calls of two that nothing touched (`Plain`): one tab of a user is in the call (`OneTabEach`), the caller's until it is over (`CallerStays`, `GoingOn`); once it is over, who is in it is leaving, or has the word of it on the wire (`EndsReach`); where it rings, the end of the ringing is on the wire or the channel, or nobody has answered it (`RingsWell`, and `InvitesWell` for an invitation not yet arrived); of every call, a shell that saw company has it, or is about to hear of the loss (`InCompany`) |
| `NoticesSettle` | `[]NoticesAgree`, for any number of events, notes and clicks | `NotesInv`. Told once: events are handled in their order, and one not touched by a failure has the note it is to have by then (`EventsTold`). The rows and the badge: while nothing strayed (`Calm`), a row is as read as its note, but for what a request under way has stored and is to tell (`RowsSound`, `Due`); the rows are the newest notes kept but those whose first push is to come (`Latest`, `ToCome`); the badge counts the unread ones of the others (`CountedNotes`), and what a list or a count brings would make the same true (`ListSound`, `CountSound`) |
| `Web_proofs!ModerationKept` | `[]ModerationHolds` | `SettingsInv`: a page that is not marked stale shows what is stored, and a saving one has asked for it; `JudgingInv`: the copy, and the settings in the hand of an analysis, were in force at or after the tick they count from (`Since`), a set that only grows. The greatest of several scores is there by a well-founded ordering of finite sets (`GreatestThere`) |
| `AttachmentKept` | `[]AttachmentsKept` | `FilesInv`: what is being uploaded is new to every list, every request and all that is stored; `CareInv`: while the person is careful, lists and uploads together are what was picked, within the limit; `SaidInv`: what may still be sent repeats nothing stored |
| `DirectoryKept` | `[]DirectoryHolds` | `LoadsInv`: a load tells the truth about everybody nobody asked to follow since it began; `TrackedInv`: per person one request is on its way, and it fits what is stored; so a count shown is the service's plus the marks not yet stored less those not yet taken off (`Expected`, per person, and `ExpectedMine`, a sum of cardinalities that a step at one person moves by the same one) |

Only model-checked:

* `OnlyAuthHoldsUp`: liveness under fairness is out of the prover's reach.
* `FeedAgrees`: rows merged page by page.

Sorting, filtering and cutting need no induction over data here: `Lists` says of each
place of the new list which place of the old one it shows (the one of that rank), and
`Lists_proofs` has what the proofs use of it: that such a list has exactly what was
kept, once, in order, and that the newest of a set are the same with or without what
is older.

Four things came out of the attempts to prove. A member who adds others and leaves
while two replicas are at work is not told of the addition (`Missed` of `Messenger` had
taken the adder for one who knows). After "mark all as read", a note that came meanwhile
and was cut off the rows by a refresh leaves the badge for good (`AllReadDone` of
`Notices` had marked only notes that are still among the rows). The replies of a comment
taken back are read as none while its row still counts them, and so are those written
between the load of the page and their own (`RepliesHold` of `Thread` had claimed the
first, and `mixed` had not marked the second). A card whose row left the page while its
like was still to be stored, liked again when it is back, may end showing the opposite of
what is stored, as may a repost that a refresh had shown, and that was liked, before the
share was answered (`Orphaned` and `strayed` of `Feed`; seven clicks, no failure). None of
these happens within the bounds of the runs.

The inductive invariants were checked by TLC as invariants of the runs'
instances before they were proved.

## 6. What the properties leave out, and what is not modelled

Each of these is in the modules (the auxiliary variable is named where one marks
it) and was met while modelling; no document of the repository contradicts them,
so they are listed here and not as findings.

* **Posts**. A replica that dies after `create` saved leaves a held post nobody is
  told of, and its redelivered message stores a second one. A harmful verdict
  that arrives after an approval holds the post again.
* **Accounts**. A rotation cut between its writes ends the session; a redelivered
  penalty charges again (`charged` counts what was stored, not what was meant); of
  two penalties on two replicas one may be lost, and one beside a pardon may bring
  back the forgiven count, so that the count lags what it should be or outlives its
  pardon: `NeverOvercharged` and `PunishedAsEarned` bound it from one side. A sixth
  penalty replaces a longer block.
* **Chat** (`crossed`). A history that answers late replaces the thread of another
  conversation; a message pushed while a history is under way is lost from the
  thread; a failed history leaves the last thread shown; the typing dots survive a
  change of conversation. `list_messages` answers the oldest 50. A group may be
  created larger than it may grow. When the gateway cannot look up names it pushes
  nothing. A redelivered send is stored again; a departure whose system message
  fails is stored but answered with an error. With two replicas `DirectIsUnique`
  fails, and a group outgrows its limit by one (`GroupNearLimit` says by how much at
  most).
* **Calls** (`touched`). One member's rejection ends a group caller's session; an
  acceptance that crosses a hang-up joins an empty room; a second invitation
  replaces the first; a new call drops the old one without a word to its peers; the
  session stays when the meeting ends while the shell is not mounted.
* **Feed** (`strayed`, `shifted`, `misShared`). Patches are applied again after a
  refresh and an equal one is skipped; a post liked again while the like of a card that
  left the page is still to be stored; a repost that was shown and liked before its share
  is answered comes back as it was; deleting a repost leaves its share row;
  `loadMore` during a second refresh skips or repeats rows; originals on hold or
  deleted are shown inside their reposts.
* **Notifications** (`uneven`, `astray`). The badge drifts when a fetched count and a
  push cross, and when read marks cross a list; answers after a sign-out fill the
  store again; an event delivered again is stored again; a failed look-up of
  followers tells nobody.
* **Sessions** (`met`). A refresh that answers after the sign-out stores its token; a
  reload during a refresh loses the rotated cookie; two windows that refresh at
  once sign both out, and so does a refresh that fails on the network; a sign-out
  that fails leaves the cookie.
* **Sign-up** (`upset`, `tardy`, `unguarded`). A sign-up that fails after the user is
  stored cannot be repeated, only resent; a verification of an expired code may
  delete a newer one; the second of two verifications answers 500; when the look-up
  of the profile fails the page behind the guard is shown.
* **Attachments** (`orphaned`, `hasty`). A comment's composer closed while it uploads
  gets the file when it is opened again; Enter is not guarded, so a comment may be
  sent twice, or before its uploads end; text typed while sending is erased.
* **Threads** (`wandered`, `lopsided`, `mixed`, `dark`). A load that answers after the
  address changed shows the other post; a reply written before the replies were
  read hides the earlier ones; a heart starts unlit although the comment is liked.
* **Moderation**. A settings page that could not load shows defaults and can
  save them; what is changed while saving is overwritten by the answer; of two
  administrators the last one wins whole; an analysis none of whose parts was
  answered passes the post; media beyond the eighth are not seen.
* **Directory** (`blurred`). Beside the finding: the set is empty until a list was
  loaded, so buttons show Follow and their click is refused; the first follow on the
  directory page drops the load under way and leaves a set of one; a rollback after a
  list took the flip back leaves the counts off; a profile page keeps its own copy
  of the counts.

Not modelled:

* Content: text, media, scores, mails, notices' wording, rendering, audio and video.
* The forms' validation, editing a profile, statistics, searching posts,
  the administrators' lists: reads and rendering with no protocol of their own.
* Emitted events are counted in `PostLifecycle`, `Engagement` and `FollowGraph` and
  delivered in `Notices`; the two are not composed, as an emit is not awaited and
  nothing flows back.
* `admin-service` is a stub; the chart and the pipelines are configuration.

## 7. Plan

Done: every service but the stub, and the features of both SPAs that keep state;
the theorems of section 5.
Next, in order:

1. A proof for `Feed`.
2. An abstract `PostPolicy`, refined by `PostLifecycle`; the composition of
   `PostLifecycle` with `Accounts` across the penalty RPC.
