------------------------------ MODULE MCAccess ------------------------------
(* OAuth, Credentials, EventFeed and Recipes on small sets, for TLC.  They *)
(* share whether a person may sign in and nothing else, and OAuth and      *)
(* EventFeed take any answer to that for granted: a behaviour is one of a  *)
(* single component, with the others at rest.                              *)
EXTENDS OAuth

CONSTANTS p1, p2, t1, s1, s2, HostUser, Callers, Overlap, Updates, MaxRequests, MaxCommands,
    Topics, Cookie, MaxSubs, MaxSigning, MaxPending, MaxChanges, MaxDials, MaxBreaks,
    Digests, KeepRecipes, MaxCalls, MaxFailed, MaxStarts,
    Accounts, ApiTokens, OpenPages  \* the people and tokens of Credentials, the pages of EventFeed

VARIABLES
    userMem, userFile, userSame, userOwner, tokenMem, tokenFile, tokenSame, tokenOwner,
    update, cli, minted, left, said, gone,
    truth, hub, conn, wire, page, signedIn, missed, spent,
    recs, file, calls, told, wasted,
    part  \* the component whose behaviour it is

OnePerson == {p1}
TwoPeople == {p1, p2}
OneToken  == {t1}
OneSlot   == {s1}
TwoSlots  == {s1, s2}
AnyCaller == {p1, "token"}

Store == INSTANCE Credentials WITH
    People <- Accounts, Tokens <- ApiTokens, Admins <- Callers \cap Accounts, Slots <- Updates,
    req <- update, spare <- left

Feed == INSTANCE EventFeed WITH
    Pages <- OpenPages, MaxFaults <- MaxBreaks, allowed <- signedIn

Built == INSTANCE Recipes

storeVars == <<userMem, userFile, userSame, userOwner, tokenMem, tokenFile, tokenSame, tokenOwner,
               update, cli, minted, left, said, gone>>
feedVars == <<truth, hub, conn, wire, page, signedIn, missed, spent>>
recipeVars == <<recs, file, calls, told, wasted>>

AccessInit ==
    /\ Init /\ Store!Init /\ Feed!Init /\ Built!Init
    /\ part \in {"oauth", "credentials", "events", "recipes"}

AccessNext ==
    \/ part = "oauth" /\ Next /\ UNCHANGED <<storeVars, feedVars, recipeVars, part>>
    \/ part = "credentials" /\ Store!Next /\ UNCHANGED <<vars, feedVars, recipeVars, part>>
    \/ part = "events" /\ Feed!Next /\ UNCHANGED <<vars, storeVars, recipeVars, part>>
    \/ part = "recipes" /\ Built!Next /\ UNCHANGED <<vars, storeVars, feedVars, part>>

AccessSpec == AccessInit /\ [][AccessNext]_<<vars, storeVars, feedVars, recipeVars, part>>

(* Properties of the other modules, as they state them.                    *)
ChangesStand     == Store!ChangesStand
RevokedIsRefused == Store!RevokedIsRefused
AdminRemains     == Store!AdminRemains
LiveIsCurrent    == Feed!LiveIsCurrent
StopEndsAll      == Feed!StopEndsAll
AnswersStand     == Built!AnswersStand
=============================================================================
