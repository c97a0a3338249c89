---------------------------- MODULE AdminConsole ----------------------------
(***************************************************************************)
(* The web console of internal/httpapi (webui*.go), used from one browser, *)
(* on top of the JSON API of AdminAPI.                                     *)
(*                                                                         *)
(* The browser holds the session cookie (the token itself), the CSRF       *)
(* cookie and the CSRF value of the page last rendered; a request carries  *)
(* them as they are when it is sent.                                       *)
(***************************************************************************)
EXTENDS AdminAPI

NoCookies == [browser EXCEPT !.session = None, !.csrf = 0]

-----------------------------------------------------------------------------
(* Console authentication *)

\* tokenFromRequest and Authenticate: what the caller is told, and what the
\* store is left with.
uiResult(token, io) == Result(Authenticate(token), io)
uiAuthenticate(r, pc, token, io) ==
    LET key == Authenticate(token).key IN
    /\ At(r, pc) /\ req[r].front = "ui"
    /\ Fault(io)
    /\ key # None \/ io = "ok"
    /\ IF key = None THEN UNCHANGED <<keys, disk>> ELSE PutAPIKey(token.id, key, io)
    /\ UNCHANGED <<clock, minted, confVars, sc, up, idem, audit, auditDisk, issued,
                   connected, draining, cli>>

\* A request without a token is sent to the login page, one whose token is
\* dead is sent there without cookies.
toLogin(r) ==
    /\ Respond(r, 303)
    /\ browser' = IF req[r].token = None THEN browser ELSE NoCookies

pageScope(op) == IF op = "page" THEN <<"config", "read">> ELSE registerAdminRoutes[op]

uiScopeAuth(r) ==
    /\ req[r].op \notin LoginOps \cup {"index"}
    /\ \E io \in {"ok", "disk"} :
         LET token == req[r].token
             res == uiResult(token, io) IN
         /\ uiAuthenticate(r, "auth", token, io)
         /\ IF res = "unauthenticated" THEN toLogin(r)
            ELSE /\ IF res # "ok" THEN Respond(r, 500)
                    ELSE IF HasScope(Authenticate(token).key, pageScope(req[r].op))
                    THEN req' = [req EXCEPT ![r].actor = token.id, ![r].pc = "handler"]
                    ELSE Respond(r, 403)
                 /\ UNCHANGED browser

\* buildShell: a rendered page carries the CSRF cookie of its request.
buildShell(r) == browser' = [browser EXCEPT !.form = req[r].cookie]

\* The overview authenticates by itself, the other pages a second time; both
\* take any failure for a dead session.
shellOrLogin(r, pc) ==
    \E io \in {"ok", "disk"} :
        /\ uiAuthenticate(r, pc, req[r].token, io)
        /\ IF uiResult(req[r].token, io) = "ok" THEN Respond(r, 200) /\ buildShell(r)
           ELSE toLogin(r)
handleUIIndex(r) == req[r].op = "index" /\ shellOrLogin(r, "auth")
handleUIPage(r) == req[r].op = "page" /\ shellOrLogin(r, "handler")

hasAnyAdminAccess(key) == "admin" \in key.roles \/ key.scopes # {}

\* ensureCSRFCookie: the form carries the request's cookie or a new one.
ensureCSRFCookie(r) ==
    browser' = IF req[r].cookie # 0 THEN [browser EXCEPT !.form = req[r].cookie]
               ELSE [browser EXCEPT !.csrf = browser.next, !.form = browser.next, !.next = @ + 1]

\* A browser already signed in is redirected; any other gets the form.
handleUILoginPage(r) ==
    /\ req[r].op = "loginpage"
    /\ \E io \in {"ok", "disk"} :
         /\ uiAuthenticate(r, "auth", req[r].token, io)
         /\ IF uiResult(req[r].token, io) = "ok" THEN Respond(r, 303) /\ UNCHANGED browser
            ELSE Respond(r, 200) /\ ensureCSRFCookie(r)

\* renderLoginError: the form again, and no session.
renderLoginError(r) == Respond(r, 401) /\ ensureCSRFCookie(r)

\* The form must carry the cookie's value and the token some admin access;
\* a session starts with a new CSRF value.
handleUILoginSubmit(r) ==
    /\ req[r].op = "login"
    /\ \E io \in {"ok", "disk"} :
         LET token == IF req[r].csrf THEN req[r].arg ELSE None IN
         /\ uiAuthenticate(r, "auth", token, io)
         /\ IF uiResult(token, io) = "ok" /\ hasAnyAdminAccess(Authenticate(token).key)
            THEN /\ Respond(r, 303)
                 /\ browser' = [browser EXCEPT !.session = token, !.csrf = browser.next,
                                               !.next = @ + 1]
            ELSE renderLoginError(r)

handleUILogout(r) ==
    /\ At(r, "auth") /\ req[r].op = "logout"
    /\ Respond(r, 303)
    /\ browser' = IF req[r].csrf THEN NoCookies ELSE browser
    /\ UNCHANGED <<keyVars, confVars, sc, up, adminVars, cli>>

-----------------------------------------------------------------------------
(* Console writes: the CSRF check, then what the JSON handler does *)

uiWriteGuard(r) == At(r, "handler") => req[r].csrf
uiRefused(r) == At(r, "handler") /\ ~ req[r].csrf /\ Refuse(r, 403)

renderKeyWriteError(res) ==
    CASE res = "notfound" -> 404 [] res = "unauthenticated" -> 409 [] OTHER -> 500
uiStatus(r, ok) == IF req[r].res = "ok" THEN ok ELSE renderKeyWriteError(req[r].res)

handleUIKeyCreate(r) ==
    Serves(r, "ui", "create") /\
        (uiRefused(r) \/ (uiWriteGuard(r) /\ createKey(r)) \/ auditHandler(r, uiStatus(r, 201)))
handleUIKeyRotate(r) ==
    Serves(r, "ui", "rotate") /\
        (uiRefused(r) \/ (uiWriteGuard(r) /\ rotateKey(r)) \/ auditHandler(r, uiStatus(r, 200)))
handleUIKeyRevoke(r) ==
    Serves(r, "ui", "revoke") /\
        (uiRefused(r) \/ (uiWriteGuard(r) /\ revokeKey(r)) \/ auditHandler(r, uiStatus(r, 200)))
handleUIKeyPermissions(r) ==
    Serves(r, "ui", "perms") /\
        (uiRefused(r) \/ (uiWriteGuard(r) /\ setPermissions(r)) \/ auditHandler(r, uiStatus(r, 200)))
handleUIWorkerDrain(r) ==
    Serves(r, "ui", "drain") /\
        (uiRefused(r) \/ (uiWriteGuard(r) /\ workerCall(r)) \/ auditHandler(r, uiStatus(r, 200)))
handleUIWorkerEvict(r) ==
    Serves(r, "ui", "evict") /\
        (uiRefused(r) \/ (uiWriteGuard(r) /\ workerCall(r)) \/ auditHandler(r, uiStatus(r, 200)))
handleUIWorkerPull(r) ==
    Serves(r, "ui", "pull") /\
        (uiRefused(r) \/ (uiWriteGuard(r) /\ workerCall(r)) \/ auditHandler(r, uiStatus(r, 200)))
handleUIWorkerUnload(r) ==
    Serves(r, "ui", "unload") /\
        (uiRefused(r) \/ (uiWriteGuard(r) /\ workerCall(r)) \/ auditHandler(r, uiStatus(r, 200)))
handleUIConfigUpdate(r) ==
    Serves(r, "ui", "config") /\
        (uiRefused(r) \/ (uiWriteGuard(r) /\ putConfig(r, settingsFormToPatch(req[r].arg))))

=============================================================================
