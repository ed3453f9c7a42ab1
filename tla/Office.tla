------------------------------- MODULE Office -------------------------------
(***************************************************************************)
(* The services around the money that share no state with each other:      *)
(* sessions, sign-in, the game's configuration, managers' invitations, the *)
(* first-deposit bonus, the choice of a gateway, push notifications and    *)
(* the identities of accounts.  Since no step of one can disturb another,  *)
(* a behaviour follows one of them, chosen at the start, and leaves the    *)
(* rest as they began; running them side by side would add no behaviour of *)
(* any.                                                                    *)
(***************************************************************************)
EXTENDS Sessions, SignIn, GameConfig, ManagerInvites, Promotions, GatewayRouter,
        PushNotifications, Accounts

CONSTANT Services  \* the services to follow

VARIABLE service   \* the one this behaviour follows

promotionVars == <<moneyVars, busVars, handling>>
officeVars ==
  <<service, sessionVars, signInVars, configVars, inviteVars, promotionVars, routerVars,
    pushVars, accountsVars>>

OfficeInit ==
  /\ service \in Services
  /\ SessionsInit /\ SignInInit /\ ConfigInit /\ InvitesInit
  /\ EventsInit /\ PromotionsInit /\ RouterInit /\ PushInit /\ AccountsInit
  \* The bounds of a service that is not followed make no difference.
  /\ service # "sessions" => sessionBounds = CHOOSE b \in SessionBounds : TRUE
  /\ service # "router" => routerLeft = CHOOSE b \in RouterBounds : TRUE

InSessions(step) ==
  /\ service = "sessions" /\ step
  /\ UNCHANGED <<service, signInVars, configVars, inviteVars, promotionVars,
                  routerVars, pushVars, accountsVars>>

InSignIn ==
  /\ service = "sign-in" /\ SignInNext
  /\ UNCHANGED <<service, sessionVars, configVars, inviteVars, promotionVars,
                  routerVars, pushVars, accountsVars>>

InGameConfig ==
  /\ service = "game-config" /\ ConfigNext
  /\ UNCHANGED <<service, sessionVars, signInVars, inviteVars, promotionVars,
                  routerVars, pushVars, accountsVars>>

InInvites ==
  /\ service = "invites" /\ InvitesNext
  /\ UNCHANGED <<service, sessionVars, signInVars, configVars, promotionVars,
                  routerVars, pushVars, accountsVars>>

InPromotions ==
  /\ service = "promotions"
  /\ PromotionsNext \/ (EventsNext /\ UNCHANGED handling)
  /\ UNCHANGED <<service, sessionVars, signInVars, configVars, inviteVars,
                  routerVars, pushVars, accountsVars>>

InRouter ==
  /\ service = "router" /\ RouterNext
  /\ UNCHANGED <<service, sessionVars, signInVars, configVars, inviteVars,
                  promotionVars, pushVars, accountsVars>>

InPush ==
  /\ service = "push" /\ PushNext
  /\ UNCHANGED <<service, sessionVars, signInVars, configVars, inviteVars,
                  promotionVars, routerVars, accountsVars>>

InAccounts ==
  /\ service = "accounts" /\ AccountsNext
  /\ UNCHANGED <<service, sessionVars, signInVars, configVars, inviteVars,
                  promotionVars, routerVars, pushVars>>

OfficeNext ==
  \/ InSessions(SessionsNext) \/ InSignIn \/ InGameConfig \/ InInvites
  \/ InPromotions \/ InRouter \/ InPush \/ InAccounts

\* A request that was begun goes on, unless its process dies.
OfficeSpec ==
  /\ OfficeInit /\ [][OfficeNext]_officeVars
  /\ \A r \in Requests : WF_officeVars(InSessions(RequestStep(r)))
-----------------------------------------------------------------------------
OfficeTypeOK ==
  /\ service \in Services
  /\ SessionsTypeOK /\ SignInTypeOK /\ ConfigTypeOK /\ InvitesTypeOK
  /\ EventsTypeOK /\ PromotionsTypeOK /\ RouterTypeOK /\ PushTypeOK /\ AccountsTypeOK
=============================================================================
