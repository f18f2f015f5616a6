----------------------------- MODULE TokenIssue -----------------------------
(***************************************************************************)
(* Issuing temporary tokens, fog/tokens/routes.py tokens_issue, and        *)
(* revoking devices and tokens, fog/revocation.                            *)
(***************************************************************************)
EXTENDS FogState

\* What token issue and revocation leave alone.
notToken == <<sessions, epochVars, lock, ledgerVars, proofs, crashes>>

\* Fresh token ids: no token has them and no request is about to use them.
FreshTokens == {k \in Tokens : /\ issued[k] = None
                               /\ \A u \in Threads : frame[u].tok # k}

-----------------------------------------------------------------------------
\* POST /tokens/issue: the session, the record's checks, then the token.
TokensIssue(t, s) ==
  /\ "issue" \in Requests /\ Idle(t)
  /\ Open(s) /\ sessions[s].state = "METADATA_ACCEPTED"
  /\ \E k \in FreshTokens :
       Call(t, "issue_known", [NoFrame EXCEPT !.sid = s, !.tok = k,
                                              !.did = sessions[s].did])
  /\ UNCHANGED <<devices, tokenVars, notToken>>

\* The record's status is read twice, and may have changed in between.
NotRevoked_Known(d) == Known(d)
NotRevoked(d) == Known(d) /\ devices[d].status # "REVOKED"

MayHaveToken_Registered(d) == devices[d].roleOk
MayHaveToken(d) == devices[d].status # "REGISTERED" /\ devices[d].roleOk

IssueKnown(t) ==
  /\ At(t, "issue_known")
  /\ IF NotRevoked(frame[t].did)
     THEN Goto(t, "issue_eligible") /\ UNCHANGED frame
     ELSE Reply(t)
  /\ UNCHANGED <<devices, tokenVars, notToken>>

IssueEligible(t) ==
  /\ At(t, "issue_eligible")
  /\ IF MayHaveToken(frame[t].did)
     THEN Goto(t, "issue_record") /\ UNCHANGED frame
     ELSE Reply(t)
  /\ UNCHANGED <<devices, tokenVars, notToken>>

\* TokenState.record_issued
IssueRecord(t) ==
  /\ At(t, "issue_record")
  /\ issued' = [issued EXCEPT ![frame[t].tok] = frame[t].did]
  /\ Goto(t, "issue_status")
  /\ UNCHANGED <<devices, revoked_token_ids, frame, notToken>>

IssueStatus(t) ==
  /\ At(t, "issue_status")
  /\ set_status(frame[t].did, "TOKENIZED")
  /\ Reply(t)
  /\ UNCHANGED <<tokenVars, notToken>>

-----------------------------------------------------------------------------
\* POST /revocation/revoke for a device, perhaps naming one more token.
Revoke(t, d, extra) ==
  /\ "revoke" \in Requests /\ Idle(t)
  /\ Known(d)
  /\ set_status(d, "REVOKED")
  /\ Call(t, "revoke_list", [NoFrame EXCEPT !.did = d, !.toks = extra])
  /\ UNCHANGED <<tokenVars, notToken>>

tokens_of_One(d) == LET all == {k \in Tokens : issued[k] = d}
                    IN  {k \in all : k = CHOOSE first \in all : TRUE}
tokens_of_Owner(d) == {issued[k] : k \in Tokens} \cap {d}
tokens_of(d) == {k \in Tokens : issued[k] = d}

\* A snapshot of the device's tokens, blacklisted one by one afterwards.
RevokeList(t) ==
  /\ At(t, "revoke_list")
  /\ frame' = [frame EXCEPT ![t].toks = @ \cup tokens_of(frame[t].did)]
  /\ Goto(t, "revoke_tokens")
  /\ UNCHANGED <<devices, tokenVars, notToken>>

RevokeTokens(t) ==
  /\ At(t, "revoke_tokens")
  /\ IF frame[t].toks = {} THEN Reply(t) /\ UNCHANGED revoked_token_ids
     ELSE \E k \in frame[t].toks :
            /\ revoked_token_ids' = revoked_token_ids \cup {k}
            /\ frame' = [frame EXCEPT ![t].toks = @ \ {k}]
            /\ UNCHANGED pc
  /\ UNCHANGED <<devices, issued, notToken>>

\* The same request with token_only: one token of that device.
RevokeToken(t, d, k) ==
  /\ "revoke" \in Requests /\ Idle(t)
  /\ issued[k] = d
  /\ revoked_token_ids' = revoked_token_ids \cup {k}
  /\ UNCHANGED <<devices, issued, pc, frame, notToken>>

-----------------------------------------------------------------------------
Issuing(t) ==
  \/ IssueKnown(t) \/ IssueEligible(t) \/ IssueRecord(t) \/ IssueStatus(t)
  \/ RevokeList(t) \/ RevokeTokens(t)

TokenRequest(t) ==
  \/ \E s \in Sids : TokensIssue(t, s)
  \/ \E d \in Dids :
       \/ \E extra \in {{}} \cup {{k} : k \in Tokens} : Revoke(t, d, extra)
       \/ \E k \in Tokens : RevokeToken(t, d, k)
=============================================================================
