------------------------------ MODULE EntMixins ------------------------------
(* The field lists of the schema mixins, in their order: what ent's runtime
   binds by index. A descriptor has the type its default is made of ("none"
   without one) and the number of string validators it carries. *)

String(n, validators) == [name |-> n, default |-> "none", validators |-> validators]
Plain(n)              == String(n, 0)
WithDefault(n, type, validators) ==
    [name |-> n, default |-> type, validators |-> validators]

oauthSession ==
    <<String("session_type", 2), String("signature", 2), String("client_id", 2),
      Plain("user_id"), WithDefault("request_id", "string", 1),
      WithDefault("scopes", "string", 1), WithDefault("session_data", "map", 0),
      WithDefault("active", "bool", 0), Plain("expires_at")>>

OAuthClient ==
    <<String("client_id", 2), WithDefault("client_secret_hash", "string", 0),
      WithDefault("redirect_uris", "list", 0), WithDefault("grant_types", "list", 0),
      WithDefault("response_types", "list", 0), WithDefault("scopes", "string", 1),
      WithDefault("audience", "list", 0), WithDefault("is_public", "bool", 0),
      String("name", 2), Plain("workspace_id")>>

OAuthSigningKey ==
    <<String("kid", 2), WithDefault("algorithm", "string", 1),
      Plain("private_key_pem"), Plain("public_key_pem"),
      WithDefault("is_active", "bool", 0), Plain("expires_at"), Plain("retired_at")>>

PersonalAccessToken ==
    <<Plain("user_id"), String("name", 2), String("token_hash", 2),
      String("token_prefix", 2), Plain("last_used_at"), Plain("expires_at")>>
=============================================================================
