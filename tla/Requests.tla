------------------------------ MODULE Requests ------------------------------
(***************************************************************************)
(* What a request meets on its way to an endpoint (core/request_context.py,*)
(* core/limits.py, api/deps.py, core/security.py) and what the endpoints   *)
(* that only read answer: documents (api/v1/documents.py), a chunk with    *)
(* its neighbours (services/chunks.py) and the admin's statistics          *)
(* (api/v1/admin.py).  Pure operators.  The rate limit, between the        *)
(* request id and the body limit, is RateLimit's.                          *)
(*                                                                         *)
(* A response is a record with a status; a request is                      *)
(* [id, method, path, length, chunked], where length is NoLength,          *)
(* NotANumber or what Content-Length says, and comes with a token.         *)
(***************************************************************************)
EXTENDS EvalMetrics

NoLength == -1
NotANumber == -2
NoToken == <<>>

Request ==
  [id : [acceptable : BOOLEAN, name : STRING], method : STRING, path : STRING,
   length : Int, chunked : BOOLEAN]

-----------------------------------------------------------------------------
(* The body limit refuses from the headers alone. *)
BodyLimit(limits, path) == IF path = "documents" THEN limits.upload ELSE limits.request

BodyStatus(limits, request) ==
  IF request.method \notin {"POST", "PUT", "PATCH"} THEN 200
  ELSE CASE request.length = NoLength   -> IF request.chunked THEN 411 ELSE 200
         [] request.length = NotANumber -> 400
         [] OTHER -> IF request.length > BodyLimit(limits, request.path) THEN 413 ELSE 200

(* RequestIdMiddleware, the outermost of the application's: an acceptable  *)
(* id is kept, any other is replaced by the fresh one, and what the        *)
(* application answers carries it.  The 500 of an exception no handler     *)
(* takes is sent outside of it and carries none: a path left out here.     *)
Identified(request, fresh, status, caller) ==
  [id |-> IF request.id.acceptable THEN request.id ELSE fresh,
   status |-> status, caller |-> caller]

-----------------------------------------------------------------------------
(* Tokens.  now and the times of a token count minutes; a secret or issuer *)
(* that was changed since invalidates what was issued before.              *)
Roles == {"admin", "reader"}

CreateAccessToken(settings, user, now) ==
  [user |-> user.email, tenant |-> user.tenant, role |-> user.role, iat |-> now,
   exp |-> now + settings.ttl, secret |-> settings.secret, iss |-> settings.issuer]

(* Who is calling, or NoToken. *)
DecodeAccessToken(settings, token, now) ==
  IF /\ token # NoToken
     /\ token.secret = settings.secret /\ token.iss = settings.issuer
     /\ token.iat <= now /\ now < token.exp
     /\ token.role \in Roles
  THEN [user |-> token.user, tenant |-> token.tenant, role |-> token.role]
  ELSE NoToken

(* A password is stored as what scrypt makes of it. *)
HashPassword(password) == [scheme |-> "scrypt", of |-> password]
VerifyPassword(password, stored) == stored = HashPassword(password)

(* The token of a login, or NoToken: unknown emails and wrong passwords    *)
(* are refused alike.  An email is looked up trimmed and in lower case.    *)
Login(settings, users, name, password, now) ==
  LET known == {u \in users : /\ u.email = name /\ VerifyPassword(password, u.password)
                              /\ u.role \in Roles}
  IN IF known = {} THEN NoToken
     ELSE CreateAccessToken(settings, CHOOSE u \in known : TRUE, now)

-----------------------------------------------------------------------------
(* The database [documents, chunks, queries]: sets of records, each with   *)
(* its tenant, and store, the documents whose original is stored.          *)
Document == [id : Nat, tenant : Nat, kind : STRING, status : STRING]
StoredChunk == [document : Nat, tenant : Nat, strategy : STRING, ordinal : Nat]
Query == [tenant : Nat, at : Nat, abstained : BOOLEAN, ms : Nat,
          cost : {Nothing} \cup [1..1 -> Nat]]

(* An id is of one document, and a chunk belongs to a document, by the     *)
(* keys of the schema; it has its tenant, by what inserts it.              *)
Database ==
  {db \in [documents : SUBSET Document, chunks : SUBSET StoredChunk, queries : SUBSET Query] :
     /\ IsFiniteSet(db.documents) /\ IsFiniteSet(db.chunks) /\ IsFiniteSet(db.queries)
     /\ \A d, e \in db.documents : d.id = e.id => d = e
     /\ \A c \in db.chunks : \E d \in db.documents : d.id = c.document /\ d.tenant = c.tenant}

OfTenant(rows, tenant) == {r \in rows : r.tenant = tenant}

(* A plausible mistake, for a mutant. *)
FindAnywhere(db, tenant, id) == {d \in db.documents : d.id = id}

(* A document of another tenant is answered like a missing one. *)
FindDocument(db, tenant, id) == {d \in OfTenant(db.documents, tenant) : d.id = id}

DocumentStatus(db, tenant, id) ==
  LET found == FindDocument(db, tenant, id)
  IN IF found = {} THEN [status |-> 404, code |-> "document_not_found"]
     ELSE [status |-> 200, body |-> (CHOOSE d \in found : TRUE).status]

(* Only a PDF whose original is stored can be shown. *)
DocumentFile(db, store, tenant, id) ==
  LET found == FindDocument(db, tenant, id)
  IN IF found = {} THEN [status |-> 404, code |-> "document_not_found"]
     ELSE IF \A d \in found : d.kind # "pdf" \/ id \notin store
          THEN [status |-> 404, code |-> "document_file_not_found"]
          ELSE [status |-> 200, body |-> id]

(* The documents with the number of their chunks in every strategy. *)
ListDocuments(db, tenant) ==
  LET chunks == OfTenant(db.chunks, tenant)
      of(d) == {c \in chunks : c.document = d.id}
  IN {[id |-> d.id, status |-> d.status,
       chunks |-> [s \in {c.strategy : c \in of(d)} |->
                    Cardinality({c \in of(d) : c.strategy = s})]] :
        d \in OfTenant(db.documents, tenant)}

(* get_chunk_context: a chunk is looked up within the tenant, one of       *)
(* another is answered like a missing one.  Its document and its           *)
(* neighbours are found by their keys alone, whatever tenant they name.    *)
ChunkContext(db, tenant, chunk, window) ==
  LET owner == {d \in db.documents : d.id = chunk.document}
      near == {c \in db.chunks \ {chunk} :
                /\ c.document = chunk.document /\ c.strategy = chunk.strategy
                /\ c.ordinal \in chunk.ordinal - window .. chunk.ordinal + window}
  IN IF chunk \notin OfTenant(db.chunks, tenant) \/ owner = {}
     THEN [status |-> 404, code |-> "chunk_not_found"]
     ELSE [status |-> 200, document |-> CHOOSE d \in owner : TRUE, chunk |-> chunk,
           before |-> {c \in near : c.ordinal < chunk.ordinal},
           after  |-> {c \in near : c.ordinal > chunk.ordinal}]

-----------------------------------------------------------------------------
(* The cost of an answer; Nothing for an unpriced model or unknown usage.  *)
(* A price is of one token here, of a million in pricing.yaml.             *)
CalculateCost(pricing, model, prompt, completion) ==
  IF prompt = Nothing \/ completion = Nothing \/ model \notin DOMAIN pricing THEN Nothing
  ELSE <<prompt[1] * pricing[model].input + completion[1] * pricing[model].output>>

(* The statistics of a window of hours.  A query is [tenant, at, abstained, *)
(* ms, cost]; a document is ready, failed or still processed.              *)
Bucket(status) == IF status \in {"ready", "failed"} THEN status ELSE "processing"

(* ORDER BY created_at DESC. *)
NewestFirst(queries) ==
  CHOOSE q \in [1 .. Cardinality(queries) -> queries] :
    IsInjective(q) /\ \A i, j \in DOMAIN q : i < j => q[i].at >= q[j].at

(* The share of the questions that were not answered, or Nothing. *)
Abstentions(queries) == MeanOf([q \in queries |-> AsNumber(q.abstained)])

StatsOf(queries, documents, chunks, recent) ==
  LET newest == NewestFirst(queries)
      total == Total([q \in {q \in queries : q.cost # Nothing} |-> q.cost[1]])
      ms == [i \in DOMAIN newest |-> newest[i].ms]
  IN [queries |-> Cardinality(queries),
      abstention_rate |-> Abstentions(queries),
      cost_usd_per_query |-> IF queries = {} THEN Nothing ELSE <<total, Cardinality(queries)>>,
      latency_ms |-> IF queries = {} THEN Nothing
                     ELSE [p \in {50, 95} |-> Percentile(ms, p)],
      documents |-> [b \in {"ready", "processing", "failed"} |->
                      Cardinality({d \in documents : Bucket(d.status) = b})],
      chunks |-> Cardinality(chunks),
      recent |-> SubSeq(newest, 1, Min({recent, Len(newest)}))]

Stats(db, tenant, hours, now, recent) ==
  StatsOf({q \in OfTenant(db.queries, tenant) : q.at >= now - hours},
          OfTenant(db.documents, tenant), OfTenant(db.chunks, tenant), recent)

-----------------------------------------------------------------------------
(* What a route needs of its caller: nothing, a token, or an admin's.      *)
Admitted(route, caller) ==
  IF route.needs = "nobody" THEN 200
  ELSE IF caller = NoToken THEN 401
       ELSE IF route.needs = "admin" /\ caller.role # "admin" THEN 403 ELSE 200

(* Only an endpoint that answers is told who its caller is. *)
Respond(settings, limits, route, request, token, now, fresh) ==
  LET caller == DecodeAccessToken(settings, token, now)
      body == BodyStatus(limits, request)
      status == IF body # 200 THEN body ELSE Admitted(route, caller)
  IN Identified(request, fresh, status, IF status = 200 THEN caller ELSE NoToken)
=============================================================================
