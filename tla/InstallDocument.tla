-------------------------- MODULE InstallDocument --------------------------
(***************************************************************************)
(* The document of an installed application (ApplicationInstall) and what  *)
(* the operations of the application manager do to it.                     *)
(*                                                                         *)
(* Of the settings the model tells four fields apart: one of the forms the *)
(* application defines, a password of these forms, the OAuth token, and    *)
(* the address the browser returns to, which no form defines.  A field is  *)
(* empty or holds who wrote it.  Encryption moves the settings into a slot *)
(* of their own; decryption moves them back.                               *)
(***************************************************************************)
CONSTANTS
    Ids,        \* documents; a value is named by the call that wrote it, and
                \* a document by the call that created it
    NoValue     \* an empty field

ASSUME DocumentAssumption == NoValue \notin Ids

Fields == {"form", "password", "token", "redirect"}

Settings == [Fields -> Ids \cup {NoValue}]

NoSettings == [f \in Fields |-> NoValue]

\* plain is settings, sealed is what encryptedSettings was made of
Documents == [enabled : BOOLEAN, plain : Settings, sealed : Settings]

NewDocument == [enabled |-> FALSE, plain |-> NoSettings, sealed |-> NoSettings]

\* beforeSend() and afterReceive() of the repository
BeforeSend(doc) ==
    IF doc.plain # NoSettings
    THEN [doc EXCEPT !.sealed = doc.plain, !.plain = NoSettings]
    ELSE doc

AfterReceive(doc) ==
    IF doc.sealed # NoSettings
    THEN [doc EXCEPT !.plain = doc.sealed, !.sealed = NoSettings]
    ELSE doc

\* addSettings() of one field; the others are kept
AddSettings(doc, f, w) == [doc EXCEPT !.plain = [@ EXCEPT ![f] = w]]

\* Mutant: the token is dropped with the fields no form defines.
SaveFormsDropsToken(doc, w) ==
    [doc EXCEPT !.plain = [@ EXCEPT !["form"] = w,
                                    !["token"] = NoValue,
                                    !["redirect"] = NoValue]]

\* What no form defines is removed, but for the token.
SaveApplicationForms(doc, w) ==
    [doc EXCEPT !.plain = [@ EXCEPT !["form"] = w, !["redirect"] = NoValue]]

SavePassword(doc, w) == AddSettings(doc, "password", w)

SetFrontendRedirectUrl(doc, w) == AddSettings(doc, "redirect", w)

SetAuthorizationToken(doc, w) == AddSettings(doc, "token", w)

RefreshAuthorization(doc, w) == AddSettings(doc, "token", w)

SetEnabled(doc, enabled) == [doc EXCEPT !.enabled = enabled]

Updates == {"settings", "password", "authorize", "token", "refresh", "enable", "disable"}

\* What an update changes before it is sent
Changed(doc, op, w) ==
    IF op = "settings" THEN SaveApplicationForms(doc, w)
    ELSE IF op = "password" THEN SavePassword(doc, w)
    ELSE IF op = "authorize" THEN SetFrontendRedirectUrl(doc, w)
    ELSE IF op = "token" THEN SetAuthorizationToken(doc, w)
    ELSE IF op = "refresh" THEN RefreshAuthorization(doc, w)
    ELSE SetEnabled(doc, op = "enable")
=============================================================================
